---------------------------- MODULE Spec2Model ----------------------------
(***************************************************************************)
(* DeepResearch-AI: the resilience layer of the research assistant.        *)
(*                                                                         *)
(*   - extractJSON (three variants): src/unnamed/part_001 (research        *)
(*     engine), src/src/core/feedback.ts, gemini-provider.ts               *)
(*   - retry (three variants): web-search.ts, feedback.ts, research engine *)
(*   - the p-limit limiter each module instantiates                        *)
(*   - generateFeedback, generateSerpQueries, searchWeb, processContents,  *)
(*     generateWithGemini and deepResearch                                 *)
(*                                                                         *)
(* A text is a sequence of tokens.  "F" is the three-backtick fence, "j"   *)
(* the tag json, "{" and "}" the braces, " " one whitespace character and  *)
(* "x" any other character.                                                *)
(***************************************************************************)
EXTENDS Integers, Sequences, FiniteSets, TLC

VARIABLES
    text,       \* extractJSON: the argument
    xvariant,   \* extractJSON: which module's variant ran ("none" before)
    xout,       \* extractJSON: the value returned (Null for null)
    rvariant,   \* retry: which module's wrapper runs
    rinput,     \* retry: the arguments of the outermost call, [retries, baseDelay]
    retries,    \* retry: the parameter retries of the current (recursive) call
    baseDelay,  \* retry: the parameter baseDelay of the current call
    rpc,        \* retry: "call" (in fn), "delay", "resolved" or "rejected"
    rerrs,      \* retry: the errors fn has thrown, in order
    rwaits,     \* retry: the waits slept, in order
    rout,       \* retry: what the outermost call settled with
    lname,      \* limiter: the module whose limit = pLimit(n) this is
    submitted,  \* limiter: how many tasks limit(...) was called with: 1..submitted
    queue,      \* limiter: the tasks waiting, oldest first
    active,     \* limiter: the tasks that are executing
    started,    \* limiter: the tasks in the order they started
    promise,    \* limiter: for each task, the promise limit(...) returned
    entry,      \* program: the call made, [op, breadth, depth, numQuestions]
    pc,         \* program: where the call is
    cstate,     \* program: the external call in progress: "none", "request", "delay"
    cretries,   \* program: retries left of the retry(...) around that call
    cbase,      \* program: baseDelay of the retry(...) around that call
    gen,        \* program: the generation operation in progress or last finished
    questions,  \* program: what generateFeedback returned
    searchQueries,  \* deepResearch: what generateSerpQueries returned
    qi,         \* deepResearch: the search loop's i
    contents,   \* deepResearch: searchResults.flat() so far
    chunks,     \* processContents: chunks
    ci,         \* processContents: the chunk loop's i
    chunkResults,   \* processContents: chunkResults
    searches,   \* program: the searchWeb calls that have settled, in order
    settled,    \* program: "pending", "resolved" or "rejected"
    result      \* program: the value the call resolved to

xvars == <<text, xvariant, xout>>

rvars == <<rvariant, rinput, retries, baseDelay, rpc, rerrs, rwaits, rout>>

lvars == <<lname, submitted, queue, active, started, promise>>

callvars == <<cstate, cretries, cbase>>

runvars == <<searchQueries, qi, contents, chunks, ci, chunkResults, searches>>

mvars == <<entry, pc, callvars, gen, questions, runvars, settled, result>>

vars == <<xvars, rvars, lvars, mvars>>

\* What an action of one component leaves alone: the other components.
notExtract == <<rvars, lvars, mvars>>

notRetry == <<xvars, lvars, mvars>>

notLimiter == <<xvars, rvars, mvars>>

notProgram == <<xvars, rvars, lvars>>

Null == <<"null">>

(***************************************************************************)
(* Each component before it is used: the specification of one component    *)
(* leaves the others like this.                                            *)
(***************************************************************************)
IdleExtract ==
    /\ text = <<>>
    /\ xvariant = "none"
    /\ xout = Null

IdleRetry ==
    /\ rvariant = "none"
    /\ rinput = [retries |-> 0, baseDelay |-> 0]
    /\ retries = 0
    /\ baseDelay = 0
    /\ rpc = "idle"
    /\ rerrs = <<>>
    /\ rwaits = <<>>
    /\ rout = Null

\* requests: the requests generateFeedback has sent to the model, those that
\* retry repeats included (kept for generateFeedback only)
NoGen == [op |-> "none", prompts |-> <<>>, texts |-> <<>>, firstFailed |-> FALSE,
          secondFailed |-> FALSE, outcome |-> "none", requests |-> 0]

\* model.generateContent(...) is called once more for generateFeedback.
oneMoreRequest(g) ==
    IF g.op = "generateFeedback" /\ g.outcome = "pending"
    THEN [g EXCEPT !.requests = @ + 1]
    ELSE g

IdleProgram ==
    /\ entry = [op |-> "none", call |-> "none", breadth |-> 0, depth |-> 0,
                numQuestions |-> 0, schema |-> "given",
                query |-> [str |-> TRUE, chars |-> <<>>]]
    /\ pc = "idle"
    /\ cstate = "none"
    /\ cretries = 0
    /\ cbase = 0
    /\ gen = NoGen
    /\ questions = <<>>
    /\ searchQueries = <<>>
    /\ qi = 0
    /\ contents = <<>>
    /\ chunks = <<>>
    /\ ci = 0
    /\ chunkResults = <<>>
    /\ searches = <<>>
    /\ settled = "pending"
    /\ result = Null

IdleLimiter ==
    /\ lname = "none"
    /\ submitted = 0
    /\ queue = <<>>
    /\ active = {}
    /\ started = <<>>
    /\ promise = <<>>

(***************************************************************************)
(* Bounds of the model.                                                    *)
(***************************************************************************)
MaxTextLen == 7

MaxRetries == 3

MaxTasks == 7

MaxNumQuestions == 4

MaxBreadth == 2

MaxDepth == 2

Alphabet == {"F", "j", "{", "}", " ", "x"}

\* The tag json is told from other prose only where the expression looks for
\* it, right after a fence; elsewhere "x" stands for it.
WellTagged(t) ==
    \A i \in 1..Len(t) : t[i] = "j" => (i > 1 /\ t[i - 1] = "F")

IsText(t) == Len(t) <= MaxTextLen /\ WellTagged(t)

(***************************************************************************)
(* JavaScript string primitives, 0-based as in the source.                 *)
(***************************************************************************)
At(t, i) == t[i + 1]

Min(a, b) == IF a < b THEN a ELSE b

Max(a, b) == IF a < b THEN b ELSE a

SetMin(S) == CHOOSE m \in S : \A n \in S : m <= n

SetMax(S) == CHOOSE m \in S : \A n \in S : n <= m

\* String.prototype.substring(start, end): both clamped to [0, length] and
\* swapped when start > end.
substring(t, start, end) ==
    LET a == Max(0, Min(start, Len(t)))
        b == Max(0, Min(end, Len(t)))
        lo == Min(a, b)
        hi == Max(a, b)
    IN  SubSeq(t, lo + 1, hi)

\* String.prototype.indexOf of a one-character needle, from index i on: -1
\* when absent.
RECURSIVE indexOfFrom(_, _, _)
indexOfFrom(t, c, i) ==
    IF i >= Len(t) THEN -1
    ELSE IF At(t, i) = c THEN i
    ELSE indexOfFrom(t, c, i + 1)

indexOf(t, c) == indexOfFrom(t, c, 0)

\* String.prototype.lastIndexOf, searching backwards from index i.
RECURSIVE lastIndexOfFrom(_, _, _)
lastIndexOfFrom(t, c, i) ==
    IF i < 0 THEN -1
    ELSE IF At(t, i) = c THEN i
    ELSE lastIndexOfFrom(t, c, i - 1)

lastIndexOf(t, c) == lastIndexOfFrom(t, c, Len(t) - 1)

(***************************************************************************)
(* The regular expression /```(?:json)?\s*(\{[\s\S]*?\})\s*```/.           *)
(***************************************************************************)
\* The first index >= i that holds no whitespace (Len(t) when there is none): \s*
RECURSIVE SkipWs(_, _)
SkipWs(t, i) ==
    IF i >= Len(t) THEN Len(t)
    ELSE IF At(t, i) # " " THEN i
    ELSE SkipWs(t, i + 1)

\* Where group 1 starts for a match that begins with the fence at i, or -1.
GroupStart(t, i) ==
    IF i >= Len(t) \/ At(t, i) # "F" THEN -1
    ELSE LET a == IF i + 1 < Len(t) /\ At(t, i + 1) = "j" THEN i + 2 ELSE i + 1
             b == SkipWs(t, a)
         IN  IF b < Len(t) /\ At(t, b) = "{" THEN b ELSE -1

\* The closing braces at which group 1 may end when it starts at b: a "}" after
\* b that whitespace and then a fence follow.
GroupEnds(t, b) ==
    {e \in (b + 1)..(Len(t) - 1) :
        /\ At(t, e) = "}"
        /\ SkipWs(t, e + 1) < Len(t)
        /\ At(t, SkipWs(t, e + 1)) = "F"}

\* [\s\S]*? is lazy: of the possible ends the first one.
LazyEnd(E) == SetMin(E)

\* A greedy [\s\S]* would take the last one.
GreedyEnd(E) == SetMax(E)

GroupEnd(E) == LazyEnd(E)

\* The match attempts at index i, i + 1, ...: group 1 of the first that
\* succeeds, Null when none does.
RECURSIVE matchFrom(_, _)
matchFrom(t, i) ==
    IF i >= Len(t) THEN Null
    ELSE LET b == GroupStart(t, i)
         IN  IF b # -1 /\ GroupEnds(t, b) # {}
             THEN substring(t, b, GroupEnd(GroupEnds(t, b)) + 1)
             ELSE matchFrom(t, i + 1)

\* text.match(...): group 1 of the leftmost match, Null when nothing matches.
codeBlockMatch(t) == matchFrom(t, 0)

(***************************************************************************)
(* extractJSON, the research engine's and feedback's variant: the fenced   *)
(* block, else the slice from the first "{" to the last "}".               *)
(***************************************************************************)
\* The slice a scan for the first "}" instead of the last would return.
firstCloseSlice(t) ==
    LET startIndex == indexOf(t, "{")
        endIndex == indexOf(t, "}")
    IN  IF startIndex = -1 \/ endIndex = -1 THEN Null
        ELSE substring(t, startIndex, endIndex + 1)

outermostSlice(t) ==
    LET startIndex == indexOf(t, "{")
        endIndex == lastIndexOf(t, "}")
    IN  IF startIndex = -1 \/ endIndex = -1 THEN Null
        ELSE substring(t, startIndex, endIndex + 1)

extractJSON(t) ==
    LET m == codeBlockMatch(t)
    IN  IF m # Null THEN m ELSE outermostSlice(t)

extractJSONFeedback(t) ==
    LET m == codeBlockMatch(t)
    IN  IF m # Null THEN m ELSE outermostSlice(t)

(***************************************************************************)
(* extractJSON, gemini-provider's variant: after the fenced block, the     *)
(* brace-counting loop, and the slice only when the loop returns nothing.  *)
(***************************************************************************)
\* The for loop from index i on; braceCount and jsonStartIndex are its locals.
RECURSIVE braceLoop(_, _, _, _)
braceLoop(t, i, braceCount, jsonStartIndex) ==
    IF i >= Len(t) THEN Null
    ELSE IF At(t, i) = "{"
         THEN braceLoop(t, i + 1, braceCount + 1,
                        IF braceCount = 0 THEN i ELSE jsonStartIndex)
    ELSE IF At(t, i) = "}"
         THEN IF braceCount - 1 = 0 /\ jsonStartIndex # -1
              THEN substring(t, jsonStartIndex, i + 1)
              ELSE braceLoop(t, i + 1, braceCount - 1, jsonStartIndex)
    ELSE braceLoop(t, i + 1, braceCount, jsonStartIndex)

extractJSONGemini(t) ==
    LET m == codeBlockMatch(t)
        counted == braceLoop(t, 0, 0, -1)
    IN  IF m # Null THEN m
        ELSE IF indexOf(t, "{") = -1 \/ lastIndexOf(t, "}") = -1 THEN Null
        ELSE IF counted # Null THEN counted
        ELSE outermostSlice(t)

(***************************************************************************)
(* retry(fn, retries, baseDelay), the three wrappers.  An error is the     *)
(* object fn throws: its statusCode and what its message contains.         *)
(***************************************************************************)
Variants == {"web", "feedback", "engine"}

StatusCodes == {429, 500}

Messages == {"429", "quota", "other"}

Errors == [statusCode : StatusCodes, message : Messages]

\* e.message?.includes('429') || e.message?.includes('quota')
messageSaysRateLimit(e) == e.message = "429" \/ e.message = "quota"

\* e.statusCode === 429
statusSaysRateLimit(e) == e.statusCode = 429

\* A wrapper that tells rate limits by the message where web-search.ts reads
\* the status code.
isRateLimitByMessage(v, e) == messageSaysRateLimit(e)

\* const isRateLimit = ... of each wrapper.
isRateLimit(v, e) ==
    CASE v = "web" -> statusSaysRateLimit(e)
      [] v = "feedback" -> messageSaysRateLimit(e)
      [] v = "engine" -> messageSaysRateLimit(e)

\* const waitTime = isRateLimit ? baseDelay * 4 : baseDelay (feedback: * 2)
waitTime(v, e, base) ==
    IF isRateLimit(v, e)
    THEN (IF v = "feedback" THEN base * 2 ELSE base * 4)
    ELSE base

\* A recursive call that keeps the wait as its baseDelay.
nextBaseDelaySame(wait) == wait

\* The baseDelay of the recursive call: retry(fn, retries - 1, waitTime * 2)
nextBaseDelay(wait) == wait * 2

\* A recursive call that passes its retries on as they are.
retriesLeftSame(r) == r

\* The retries of the recursive call: retry(fn, retries - 1, waitTime * 2)
retriesLeft(r) == r - 1

\* A wrapper that rethrows with one retry still left.
givesUpEarly(r) == r <= 1

\* if (retries === 0) throw e
givesUp(r) == r = 0

\* The default parameters: retries = 3, baseDelay = 2000 (feedback: 1000).
defaultRetries == 3

defaultBaseDelay(v) == IF v = "feedback" THEN 1000 ELSE 2000

BaseDelays == {defaultBaseDelay(v) : v \in Variants}

InitRetry ==
    /\ IdleProgram
    /\ IdleExtract
    /\ IdleLimiter
    /\ rvariant \in Variants
    /\ rinput \in [retries : 0..MaxRetries, baseDelay : BaseDelays]
    /\ retries = rinput.retries
    /\ baseDelay = rinput.baseDelay
    /\ rpc = "call"
    /\ rerrs = <<>>
    /\ rwaits = <<>>
    /\ rout = Null

\* return await fn(): fn resolves; its value is told by the invocation it is of.
FnResolves ==
    /\ UNCHANGED notRetry
    /\ rpc = "call"
    /\ rpc' = "resolved"
    /\ rout' = [value |-> Len(rerrs) + 1]
    /\ UNCHANGED <<rvariant, rinput, retries, baseDelay, rerrs, rwaits>>

\* fn throws e with no retries left: throw e.
FnThrowsLast(e) ==
    /\ UNCHANGED notRetry
    /\ rpc = "call"
    /\ givesUp(retries)
    /\ rerrs' = Append(rerrs, e)
    /\ rpc' = "rejected"
    /\ rout' = [error |-> e, call |-> Len(rerrs) + 1]
    /\ UNCHANGED <<rvariant, rinput, retries, baseDelay, rwaits>>

\* fn throws e with retries left: the catch block up to await delay(waitTime),
\* with the arguments of the recursive call computed.
FnThrows(e) ==
    /\ UNCHANGED notRetry
    /\ rpc = "call"
    /\ ~ givesUp(retries)
    /\ rerrs' = Append(rerrs, e)
    /\ rwaits' = Append(rwaits, waitTime(rvariant, e, baseDelay))
    /\ retries' = retriesLeft(retries)
    /\ baseDelay' = nextBaseDelay(waitTime(rvariant, e, baseDelay))
    /\ rpc' = "delay"
    /\ UNCHANGED <<rvariant, rinput, rout>>

\* The delay elapses: return retry(fn, retries - 1, waitTime * 2).
DelayElapses ==
    /\ UNCHANGED notRetry
    /\ rpc = "delay"
    /\ rpc' = "call"
    /\ UNCHANGED <<rvariant, rinput, retries, baseDelay, rerrs, rwaits, rout>>

NextRetry ==
    \/ FnResolves
    \/ \E e \in Errors : FnThrowsLast(e)
    \/ \E e \in Errors : FnThrows(e)
    \/ DelayElapses

SpecRetry == InitRetry /\ [][NextRetry]_vars

(***************************************************************************)
(* The limiter: const limit = pLimit(n) of each module, and limit(task).   *)
(* p-limit is a package the modules import; its queue is modelled from its *)
(* contract: a task starts when fewer than n are executing, else it waits  *)
(* its turn, and the promise limit(task) returned settles as the task does.*)
(***************************************************************************)
\* Limiters that let one more task execute.
concurrencyOneMore(l) ==
    CASE l = "web" -> 3
      [] l = "engine" -> 3
      [] l = "feedback" -> 6

\* pLimit(2) in web-search.ts and in the research engine, pLimit(5) in feedback.ts
concurrency(l) ==
    CASE l = "web" -> 2
      [] l = "engine" -> 2
      [] l = "feedback" -> 5

InitLimiter ==
    /\ IdleProgram
    /\ IdleExtract
    /\ IdleRetry
    /\ lname \in Variants
    /\ submitted = 0
    /\ queue = <<>>
    /\ active = {}
    /\ started = <<>>
    /\ promise = <<>>

\* limit(task): the task joins the queue and a pending promise is returned.
Submit ==
    /\ UNCHANGED notLimiter
    /\ submitted < MaxTasks
    /\ submitted' = submitted + 1
    /\ queue' = Append(queue, submitted + 1)
    /\ promise' = Append(promise, [state |-> "pending", of |-> 0])
    /\ UNCHANGED <<lname, active, started>>

\* A limiter that starts the task that has waited least.
newestWaiting(q) == q[Len(q)]

\* The task whose turn it is: the one that has waited longest.
oldestWaiting(q) == Head(q)

\* The oldest waiting task starts when fewer than n tasks are executing.
mayStart == Cardinality(active) < concurrency(lname) /\ queue # <<>>

StartNext ==
    /\ UNCHANGED notLimiter
    /\ mayStart
    /\ active' = active \cup {oldestWaiting(queue)}
    /\ started' = Append(started, oldestWaiting(queue))
    /\ queue' = Tail(queue)
    /\ UNCHANGED <<lname, submitted, promise>>

\* An executing task settles: its promise settles the same way and its place
\* is free.
TaskSettles(t, how) ==
    /\ UNCHANGED notLimiter
    /\ t \in active
    /\ active' = active \ {t}
    /\ promise' = [promise EXCEPT ![t] = [state |-> how, of |-> t]]
    /\ UNCHANGED <<lname, submitted, queue, started>>

NextLimiter ==
    \/ Submit
    \/ StartNext
    \/ \E t \in 1..MaxTasks : TaskSettles(t, "resolved")
    \/ \E t \in 1..MaxTasks : TaskSettles(t, "rejected")

SpecLimiter == InitLimiter /\ [][NextLimiter]_vars

(***************************************************************************)
(* The extractor's specification: any text, then one variant applied.      *)
(***************************************************************************)
InitExtract ==
    /\ IdleProgram
    /\ IdleRetry
    /\ IdleLimiter
    /\ \E n \in 0..MaxTextLen : text \in [1..n -> Alphabet]
    /\ IsText(text)
    /\ xvariant = "none"
    /\ xout = Null

ExtractEngine ==
    /\ xvariant = "none"
    /\ xvariant' = "engine"
    /\ UNCHANGED notExtract
    /\ xout' = extractJSON(text)
    /\ UNCHANGED text

ExtractFeedback ==
    /\ xvariant = "none"
    /\ xvariant' = "feedback"
    /\ UNCHANGED notExtract
    /\ xout' = extractJSONFeedback(text)
    /\ UNCHANGED text

ExtractGemini ==
    /\ xvariant = "none"
    /\ xvariant' = "gemini"
    /\ UNCHANGED notExtract
    /\ xout' = extractJSONGemini(text)
    /\ UNCHANGED text

NextExtract == ExtractEngine \/ ExtractFeedback \/ ExtractGemini

SpecExtract == InitExtract /\ [][NextExtract]_vars

(***************************************************************************)
(* The program's values.  A string is the sequence of its characters; an   *)
(* element of a parsed array is a string or something else.                *)
(***************************************************************************)
Str(chars) == [str |-> TRUE, chars |-> chars]

NotAString == [str |-> FALSE, chars |-> <<>>]

\* String.prototype.trim
RECURSIVE trimStart(_)
trimStart(c) == IF c # <<>> /\ Head(c) = " " THEN trimStart(Tail(c)) ELSE c

RECURSIVE trimEnd(_)
trimEnd(c) ==
    IF c # <<>> /\ c[Len(c)] = " " THEN trimEnd(SubSeq(c, 1, Len(c) - 1)) ELSE c

trim(c) == trimEnd(trimStart(c))

\* String.prototype.includes of one character
includes(c, ch) == \E i \in 1..Len(c) : c[i] = ch

\* Array.prototype.slice(0, n) for n >= 0
sliceTo(a, n) == SubSeq(a, 1, Min(n, Len(a)))

\* .map(q => q.trim())
mapTrim(a) == [i \in 1..Len(a) |-> Str(trim(a[i].chars))]

\* typeof q === 'string' && q.trim().length > 0 && q.includes('?')
isValidQuestion(q) == q.str /\ Len(trim(q.chars)) > 0 /\ includes(q.chars, "?")

\* parsed.questions.filter(...).map(...).slice(0, numQuestions)
validQuestions(items, n) == sliceTo(mapTrim(SelectSeq(items, isValidQuestion)), n)

\* The default questions generateFeedback falls back to: three strings, each
\* ending in a question mark.
defaultQuestionsTwo ==
    <<Str(<<"a", "s", "p", "e", "c", "t", "s", "?">>),
      Str(<<"p", "r", "i", "o", "r", "i", "t", "i", "e", "s", "?">>)>>

defaultQuestions ==
    <<Str(<<"a", "s", "p", "e", "c", "t", "s", "?">>),
      Str(<<"p", "r", "i", "o", "r", "i", "t", "i", "e", "s", "?">>),
      Str(<<"c", "o", "n", "s", "t", "r", "a", "i", "n", "t", "s", "?">>)>>

\* deepResearch asks generateFeedback for 3 questions.
sentinelNumQuestions == 3

(***************************************************************************)
(* What the external services answer.  A model response is its text (which *)
(* response.text() may fail to give) and what JSON.parse makes of the      *)
(* string extractJSON returns from it.                                     *)
(***************************************************************************)
SampleTexts ==
    {<<"x">>, <<"{", "x", "}">>, <<"F", "j", " ", "{", "x", "}", " ", "F">>}

SampleArrays ==
    {<<>>,
     <<Str(<<"a">>), Str(<<" ", " ">>), NotAString>>,
     <<Str(<<" ", "a", "?", " ">>)>>,
     <<Str(<<"a">>), Str(<<"a", "?">>), Str(<<" ", "b", "?">>)>>,
     <<Str(<<"a", "?">>), Str(<<"b", "?">>), Str(<<"c", "?">>),
       Str(<<"d", "?">>), Str(<<"e", "?">>)>>}

ParseThrows == [kind |-> "throws", items |-> <<>>]

ParsedLists ==
    {ParseThrows, [kind |-> "noarray", items |-> <<>>]}
        \cup {[kind |-> "array", items |-> a] : a \in SampleArrays}

Unreadable == [readable |-> FALSE, text |-> <<>>, parsed |-> ParseThrows]

\* A text without JSON is never parsed.
ListResponses ==
    {Unreadable}
        \cup {r \in [readable : {TRUE}, text : SampleTexts, parsed : ParsedLists] :
                 extractJSON(r.text) = Null => r.parsed = ParseThrows}

ParsedObjects == {ParseThrows, [kind |-> "object", items |-> <<>>]}

ObjectResponses ==
    {Unreadable}
        \cup {r \in [readable : {TRUE}, text : SampleTexts, parsed : ParsedObjects] :
                 extractJSON(r.text) = Null => r.parsed = ParseThrows}

\* The errors an external call fails with.
CallErrors ==
    {[statusCode |-> 429, message |-> "429"], [statusCode |-> 500, message |-> "other"]}

Failed == [ok |-> FALSE, value |-> <<>>]

\* if (!jsonStr): null or the empty string
isFalsyString(j) == j = Null \/ j = <<>>

(***************************************************************************)
(* The calls the program is started with.                                  *)
(***************************************************************************)
\* A query, and one that is blank.
SampleQuery == Str(<<"q">>)

BlankQuery == Str(<<" ">>)

\* parseInt(breadthStr), parseInt(depthStr): NaN or an integer
ParsedNumbers ==
    {[nan |-> TRUE, n |-> 0]} \cup [nan : {FALSE}, n : (-1)..(MaxBreadth + MaxDepth)]

\* parseInt(str) || dflt: NaN and 0 are falsy
orDefault(p, dflt) == IF p.nan \/ p.n = 0 THEN dflt ELSE p.n

\* Math.min(hi, Math.max(lo, n))
clamp(lo, hi, n) == IF n < lo THEN lo ELSE IF n > hi THEN hi ELSE n

\* const breadth = Math.min(10, Math.max(1, parseInt(breadthStr) || 6))
mainBreadth(p) == clamp(1, 10, orDefault(p, 6))

\* const depth = Math.min(5, Math.max(1, parseInt(depthStr) || 3))
mainDepth(p) == clamp(1, 5, orDefault(p, 3))

\* The two calls main makes of deepResearch: deepResearch(query, 1, 1) for
\* the questions, then deepResearch(enhancedQuery, breadth, depth) with what
\* the user typed, here with a breadth and a depth within the bounds.
MainCalls ==
    {[op |-> "deepResearch", call |-> "questions", breadth |-> 1, depth |-> 1,
      numQuestions |-> sentinelNumQuestions, schema |-> "given", query |-> SampleQuery]}
    \cup {e \in {[op |-> "deepResearch", call |-> "research",
                  breadth |-> mainBreadth(b), depth |-> mainDepth(d),
                  numQuestions |-> sentinelNumQuestions, schema |-> "given",
                  query |-> SampleQuery] : b \in ParsedNumbers, d \in ParsedNumbers} :
             e.breadth <= MaxBreadth /\ e.depth <= MaxDepth}

\* generateSerpQueries is not exported: deepResearch calls it with its own
\* query and breadth.  It is also started on its own, with either query.
Entries ==
    MainCalls
    \cup [op : {"generateSerpQueries"}, call : {"direct"}, breadth : 1..MaxBreadth,
          depth : {0}, numQuestions : {0}, schema : {"given"},
          query : {SampleQuery, BlankQuery}]
    \cup [op : {"searchWeb"}, call : {"direct"}, breadth : {0}, depth : 1..MaxDepth,
          numQuestions : {0}, schema : {"given"}, query : {SampleQuery}]
    \cup [op : {"generateFeedback"}, call : {"direct"}, breadth : {0}, depth : {0},
          numQuestions : 0..MaxNumQuestions, schema : {"given"}, query : {SampleQuery}]
    \cup [op : {"generateWithGemini"}, call : {"direct"}, breadth : {0}, depth : {0},
          numQuestions : {0}, schema : {"given", "undefined"}, query : {SampleQuery}]

Init ==
    /\ IdleExtract
    /\ IdleRetry
    /\ IdleLimiter
    /\ entry \in Entries
    /\ pc = "start"
    /\ cstate = "none"
    /\ cretries = 0
    /\ cbase = 0
    /\ gen = NoGen
    /\ questions = <<>>
    /\ searchQueries = <<>>
    /\ qi = 0
    /\ contents = <<>>
    /\ chunks = <<>>
    /\ ci = 0
    /\ chunkResults = <<>>
    /\ searches = <<>>
    /\ settled = "pending"
    /\ result = Null

(***************************************************************************)
(* limit(() => retry(async () => ...)): the request, repeated by retry.    *)
(***************************************************************************)
\* The module whose limit and retry wrap the call made at pc.
wrapperAt(p) ==
    CASE p \in {"fb1", "fb2"} -> "feedback"
      [] p \in {"sq", "chunk"} -> "engine"
      [] p = "sw" -> "web"

RetriedCalls == {"fb1", "fb2", "sq", "chunk", "sw"}

\* A call that sends its request outside limit and retry.
beginCallUnwrapped(v) ==
    /\ cstate' = "request"
    /\ cretries' = 0
    /\ cbase' = 0

\* The call starts: retry(fn) with the default retries and baseDelay.
beginCall(v) ==
    /\ cstate' = "request"
    /\ cretries' = defaultRetries
    /\ cbase' = defaultBaseDelay(v)

\* model.generateContent(...) called directly: nothing retries it.
beginDirectCall ==
    /\ cstate' = "request"
    /\ cretries' = 0
    /\ cbase' = 0

endCall ==
    /\ cstate' = "none"
    /\ cretries' = 0
    /\ cbase' = 0

\* The request fails and retries are left: retry's catch block up to the delay.
RequestFails(e) ==
    /\ pc \in RetriedCalls
    /\ cstate = "request"
    /\ ~ givesUp(cretries)
    /\ cstate' = "delay"
    /\ cretries' = retriesLeft(cretries)
    /\ cbase' = nextBaseDelay(waitTime(wrapperAt(pc), e, cbase))
    /\ UNCHANGED <<entry, pc, gen, questions, runvars, settled, result>>
    /\ UNCHANGED notProgram

\* The delay elapses: the recursive retry(...) sends the request again.
BackoffElapses ==
    /\ cstate = "delay"
    /\ cstate' = "request"
    /\ gen' = oneMoreRequest(gen)
    /\ UNCHANGED <<entry, pc, cretries, cbase, questions, runvars, settled, result>>
    /\ UNCHANGED notProgram

\* The request has failed for the last time: retry rethrows.
callRejects(p) == pc = p /\ cstate = "request" /\ givesUp(cretries)

(***************************************************************************)
(* generateFeedback({query, numQuestions})                                 *)
(***************************************************************************)
\* The inner try block on a response text: the questions it yields.
questionsOf(r, n) ==
    LET jsonStr == extractJSONFeedback(r.text)
    IN  IF isFalsyString(jsonStr) THEN Failed
        ELSE IF r.parsed.kind # "array" THEN Failed
        ELSE IF validQuestions(r.parsed.items, n) = <<>> THEN Failed
        ELSE [ok |-> TRUE, value |-> validQuestions(r.parsed.items, n)]

\* A fallback that knows two default questions only.
fallbackQuestionsTwo(n) == sliceTo(defaultQuestionsTwo, n)

\* The outer catch block: the default questions.
fallbackQuestions(n) == sliceTo(defaultQuestions, n)

\* A generation operation starts: its first prompt is sent.
newGen(op) ==
    [op |-> op, prompts |-> <<"first">>, texts |-> <<>>,
     firstFailed |-> FALSE, secondFailed |-> FALSE, outcome |-> "pending",
     requests |-> IF op = "generateFeedback" THEN 1 ELSE 0]


\* The first response was no use and no second prompt is sent.
withRetryPromptDropped(g) == [g EXCEPT !.firstFailed = TRUE]

\* The inner catch block: the first response was no use, the prompt amended
\* with PREVIOUS ATTEMPT FAILED is sent.
withRetryPrompt(g) ==
    oneMoreRequest([g EXCEPT !.prompts = Append(@, "retry"), !.firstFailed = TRUE])

\* The first response was no use: the operation gives up on the model, in its
\* catch block (generateSerpQueries) or by continue (the chunk loop).
noRetryPrompt(g) == [g EXCEPT !.firstFailed = TRUE]

\* response.text() gave a text.
read(g, r) == IF r.readable THEN [g EXCEPT !.texts = Append(@, r.text)] ELSE g

\* The operation ends; a fallback at the second prompt means that the second
\* attempt has failed too.
finished(g, how, second) ==
    [g EXCEPT !.outcome = how, !.secondFailed = second /\ how # "model"]

\* A sentinel result that reports the questions as search queries too.
sentinelResultWithQueries(qs) ==
    [query |-> entry.query,
     feedbackQuestions |-> qs,
     searchQueries |-> qs,
     report |-> [executiveSummary |-> <<>>, keyFindings |-> <<>>, sources |-> <<>>]]

\* The object deepResearch returns in its sentinel mode.
sentinelResult(qs) ==
    [query |-> entry.query,
     feedbackQuestions |-> qs,
     searchQueries |-> <<>>,
     report |-> [executiveSummary |-> <<>>, keyFindings |-> <<>>, sources |-> <<>>]]

\* generateFeedback returns qs, to its caller or to deepResearch, which returns.
feedbackReturns(r, qs, how) ==
    /\ questions' = qs
    /\ gen' = finished(read(gen, r), how, pc = "fb2")
    /\ pc' = "done"
    /\ settled' = "resolved"
    /\ result' = IF entry.op = "deepResearch" THEN sentinelResult(qs) ELSE qs
    /\ endCall
    /\ UNCHANGED <<entry, runvars>>

\* generateFeedback is called, by the user of the module or by deepResearch
\* in its sentinel mode: the first prompt is sent.
StartGenerateFeedback ==
    /\ pc = "start"
    /\ \/ entry.op = "generateFeedback"
       \/ entry.op = "deepResearch" /\ entry.breadth = 1 /\ entry.depth = 1
    /\ pc' = "fb1"
    /\ beginCall("feedback")
    /\ gen' = newGen("generateFeedback")
    /\ UNCHANGED <<entry, questions, runvars, settled, result>>
    /\ UNCHANGED notProgram

\* The first response arrives.
FeedbackFirstResponse(r) ==
    /\ pc = "fb1"
    /\ cstate = "request"
    /\ IF ~ r.readable
       THEN feedbackReturns(r, fallbackQuestions(entry.numQuestions), "fallback")
       ELSE IF questionsOf(r, entry.numQuestions).ok
       THEN feedbackReturns(r, questionsOf(r, entry.numQuestions).value, "model")
       ELSE /\ pc' = "fb2"
            /\ beginCall("feedback")
            /\ gen' = withRetryPrompt(read(gen, r))
            /\ UNCHANGED <<entry, questions, runvars, settled, result>>
    /\ UNCHANGED notProgram

\* The response to the retry prompt arrives.
FeedbackRetryResponse(r) ==
    /\ pc = "fb2"
    /\ cstate = "request"
    /\ IF r.readable /\ questionsOf(r, entry.numQuestions).ok
       THEN feedbackReturns(r, questionsOf(r, entry.numQuestions).value, "model")
       ELSE feedbackReturns(r, fallbackQuestions(entry.numQuestions), "fallback")
    /\ UNCHANGED notProgram

\* retry gives up on either prompt: the outer catch block.
FeedbackCallRejects ==
    /\ callRejects("fb1") \/ callRejects("fb2")
    /\ feedbackReturns(Unreadable, fallbackQuestions(entry.numQuestions), "fallback")
    /\ UNCHANGED notProgram

(***************************************************************************)
(* generateWithGemini({system, prompt, schema})                            *)
(***************************************************************************)
\* createFallbackResponse(prompt, schema) reads schema.properties: it throws
\* when schema is undefined, and generateWithGemini rejects.
geminiFallback(r) ==
    /\ gen' = finished(read(gen, r), "fallback", pc = "gw2")
    /\ pc' = "done"
    /\ settled' = IF entry.schema = "undefined" THEN "rejected" ELSE "resolved"
    /\ result' = IF entry.schema = "undefined" THEN Null ELSE [object |-> "fallback"]
    /\ endCall
    /\ UNCHANGED <<entry, questions, runvars>>

\* The try block on a response text: does it yield an object?
yieldsObject(r) ==
    /\ r.readable
    /\ ~ isFalsyString(extractJSONGemini(r.text))
    /\ r.parsed.kind # "throws"

geminiReturns(r) ==
    /\ gen' = finished(read(gen, r), "model", pc = "gw2")
    /\ pc' = "done"
    /\ settled' = "resolved"
    /\ result' = [object |-> "parsed"]
    /\ endCall
    /\ UNCHANGED <<entry, questions, runvars>>

StartGenerateWithGemini ==
    /\ pc = "start"
    /\ entry.op = "generateWithGemini"
    /\ pc' = "gw1"
    /\ beginDirectCall
    /\ gen' = newGen("generateWithGemini")
    /\ UNCHANGED <<entry, questions, runvars, settled, result>>
    /\ UNCHANGED notProgram

\* The first response arrives.
GeminiFirstResponse(r) ==
    /\ pc = "gw1"
    /\ cstate = "request"
    /\ IF ~ r.readable THEN geminiFallback(r)
       ELSE IF yieldsObject(r) THEN geminiReturns(r)
       ELSE /\ pc' = "gw2"
            /\ beginDirectCall
            /\ gen' = withRetryPrompt(read(gen, r))
            /\ UNCHANGED <<entry, questions, runvars, settled, result>>
    /\ UNCHANGED notProgram

\* The response to the retry prompt arrives.
GeminiRetryResponse(r) ==
    /\ pc = "gw2"
    /\ cstate = "request"
    /\ IF yieldsObject(r) THEN geminiReturns(r) ELSE geminiFallback(r)
    /\ UNCHANGED notProgram

\* model.generateContent rejects, on either prompt: the outer catch block.
GeminiCallRejects ==
    /\ pc \in {"gw1", "gw2"}
    /\ cstate = "request"
    /\ geminiFallback(Unreadable)
    /\ UNCHANGED notProgram

(***************************************************************************)
(* searchWeb(query, depth)                                                 *)
(***************************************************************************)
trimSize == 15000

\* trimPrompt(content, 15_000), on the length of the content
trimPrompt(len) == Min(len, trimSize)

\* limit: Math.min(depth * 2, 5)
resultLimit(depth) == Min(depth * 2, 5)

\* What the search service answers: result.data as the lengths of the items'
\* markdown (0: the item has none), or a result without data.
SampleData == {<<>>, <<9000>>, <<0, 20000>>, <<5000, 0, 0>>}

SearchResponses(depth) ==
    {[malformed |-> TRUE, data |-> <<>>]}
        \cup {[malformed |-> FALSE, data |-> d] :
                 d \in {x \in SampleData : Len(x) <= resultLimit(depth)}}

hasContent(c) == c.len > 0

\* compact(result.data.map(item => item.markdown ? trimPrompt(...) : null)):
\* the content of item k of the answer to query q
contentsOf(q, data) ==
    SelectSeq([k \in 1..Len(data) |-> [q |-> q, k |-> k, len |-> trimPrompt(data[k])]],
              hasContent)

\* await delay(1000) of searchWeb, in ms
searchDelay == 1000

\* A delay that resolves at once.
delaySkipped(ms) == 0

\* await delay(ms): the time the caller has waited when it goes on
awaitDelay(ms) == ms

\* A catch block that rethrows.
searchRethrows == [settles |-> "rejected", value |-> <<>>]

\* The catch block of searchWeb: return [].
searchCatch == [settles |-> "resolved", value |-> <<>>]

newSearch(q) ==
    [query |-> q, settles |-> "pending", failed |-> "no", paused |-> 0,
     returned |-> <<>>]

\* searches with its last entry, the call in progress, replaced.
withLastSearch(rec) == [searches EXCEPT ![Len(searches)] = rec]

(***************************************************************************)
(* processContents(query, contents)                                        *)
(***************************************************************************)
maxChunkSize == 15000

\* '\n\n'.length
separatorLength == 2

\* c.substring(0, 200) + '...'
previewLength == 200

ellipsisLength == 3

EmptyChunk == [len |-> 0, items |-> <<>>]

\* for (const content of contents) { ... }
RECURSIVE chunkLoop(_, _, _)
chunkLoop(cs, acc, currentChunk) ==
    IF cs = <<>> THEN [chunks |-> acc, currentChunk |-> currentChunk]
    ELSE IF currentChunk.len + Head(cs).len > maxChunkSize
    THEN chunkLoop(Tail(cs), Append(acc, currentChunk),
                   [len |-> Head(cs).len, items |-> <<Head(cs)>>])
    ELSE chunkLoop(Tail(cs), acc,
                   [len |-> currentChunk.len + separatorLength + Head(cs).len,
                    items |-> Append(currentChunk.items, Head(cs))])

\* The chunks of contents, the last one pushed if it is not the empty string.
makeChunks(cs) ==
    LET l == chunkLoop(cs, <<>>, EmptyChunk)
    IN  IF l.currentChunk.len > 0 THEN Append(l.chunks, l.currentChunk) ELSE l.chunks

\* What the model answers about a chunk.  A summary is a string, "" when the
\* object has none, or the empty array, which is truthy and which join
\* renders as the empty string; a list the object lacks is not present.
EmptyArray == <<"[]">>

\* String(summary), as join applies it
summaryText(s) == IF s = EmptyArray THEN <<>> ELSE s

Finding(t, d) == [isNull |-> FALSE, title |-> t, details |-> d]

NullFinding == [isNull |-> TRUE, title |-> "", details |-> ""]

List(l) == [present |-> TRUE, list |-> l]

Missing == [present |-> FALSE, list |-> <<>>]

Analysis(s, f, u) == [kind |-> "object", summary |-> s, keyFindings |-> f, sources |-> u]

AnalysisThrows == [kind |-> "throws", summary |-> <<>>, keyFindings |-> Missing,
                   sources |-> Missing]

SampleAnalyses ==
    {Analysis(<<"s1">>, List(<<Finding("A", "d1"), Finding("B", "d1")>>),
              List(<<Str(<<"u1">>), Str(<<"u2">>)>>)),
     Analysis(<<"s2">>, List(<<Finding("A", "d2")>>), List(<<Str(<<"u1">>)>>)),
     Analysis(<<"s1">>, List(<<>>), Missing),
     Analysis(<<>>, List(<<Finding("A", "d1")>>), List(<<Str(<<"u1">>)>>)),
     Analysis(<<"s1">>, Missing, List(<<Str(<<"u1">>)>>)),
     Analysis(<<"s1">>, List(<<NullFinding>>), List(<<Str(<<"u1">>)>>)),
     Analysis(EmptyArray, List(<<>>), List(<<Str(<<"u1">>)>>))}

AnalysisResponses ==
    {[readable |-> FALSE, text |-> <<>>, parsed |-> AnalysisThrows],
     [readable |-> TRUE, text |-> <<"x">>, parsed |-> AnalysisThrows],
     [readable |-> TRUE, text |-> <<"{", "x", "}">>, parsed |-> AnalysisThrows]}
        \cup {[readable |-> TRUE, text |-> <<"{", "x", "}">>, parsed |-> a] :
                 a \in SampleAnalyses}

\* chunkResults.map(r => r.summary).join('\n\n')
RECURSIVE joinSummaries(_)
joinSummaries(rs) ==
    IF rs = <<>> THEN <<>>
    ELSE IF Len(rs) = 1 THEN summaryText(rs[1].summary)
    ELSE summaryText(rs[1].summary) \o <<"\n\n">> \o joinSummaries(Tail(rs))

\* chunkResults.flatMap(r => r.keyFindings)
RECURSIVE flatFindings(_)
flatFindings(rs) ==
    IF rs = <<>> THEN <<>> ELSE rs[1].keyFindings.list \o flatFindings(Tail(rs))

\* chunkResults.flatMap(r => r.sources): undefined where the object has none
RECURSIVE flatSources(_)
flatSources(rs) ==
    IF rs = <<>> THEN <<>>
    ELSE (IF rs[1].sources.present THEN rs[1].sources.list ELSE <<NotAString>>)
             \o flatSources(Tail(rs))

\* arr.findIndex(g => g.title === f.title), for an f that is in arr
findIndexOfTitle(arr, t) == SetMin({j \in 1..Len(arr) : arr[j].title = t})

\* A filter that keeps the last finding of each title instead.
RECURSIVE keepLastTitles(_, _)
keepLastTitles(arr, i) ==
    IF i > Len(arr) THEN <<>>
    ELSE (IF \E j \in (i + 1)..Len(arr) : arr[j].title = arr[i].title
          THEN <<>> ELSE <<arr[i]>>)
             \o keepLastTitles(arr, i + 1)

\* .filter((f, i, arr) => arr.findIndex(g => g.title === f.title) === i)
RECURSIVE keepFirstTitles(_, _)
keepFirstTitles(arr, i) ==
    IF i > Len(arr) THEN <<>>
    ELSE (IF findIndexOfTitle(arr, arr[i].title) = i THEN <<arr[i]>> ELSE <<>>)
             \o keepFirstTitles(arr, i + 1)

\* [...new Set(list)]
RECURSIVE uniqueInOrder(_, _)
uniqueInOrder(list, i) ==
    IF i > Len(list) THEN <<>>
    ELSE (IF \E j \in 1..(i - 1) : list[j] = list[i] THEN <<>> ELSE <<list[i]>>)
             \o uniqueInOrder(list, i + 1)

\* g.title of a null finding throws.
mergeThrows(rs) == \E i \in 1..Len(flatFindings(rs)) : flatFindings(rs)[i].isNull

merged(rs) ==
    [summary |-> joinSummaries(rs),
     keyFindings |-> keepFirstTitles(flatFindings(rs), 1),
     sources |-> uniqueInOrder(flatSources(rs), 1)]

\* The catch block of processContents.
fallbackAnalysis(cs) ==
    [summary |-> <<"Error analyzing results. Here are the raw findings:">>,
     keyFindings |->
        <<[isNull |-> FALSE, title |-> "Raw Results",
           details |-> [i \in 1..Len(cs) |->
                          [cs[i] EXCEPT !.len = Min(@, previewLength) + ellipsisLength]]]>>,
     sources |-> <<Str(<<"Error processing sources">>)>>]

\* What processContents returns once the chunk loop has ended.
analysisOf(rs, cs) ==
    IF rs = <<>> \/ mergeThrows(rs) THEN fallbackAnalysis(cs) ELSE merged(rs)

(***************************************************************************)
(* deepResearch(query, breadth, depth), with the calls it awaits           *)
(***************************************************************************)
theQuery == entry.query

\* The catch block of generateSerpQueries: variations of the query.
queryVariations(breadth) ==
    sliceTo(<<theQuery,
              Str(theQuery.chars \o <<" ", "comparison">>),
              Str(theQuery.chars \o <<" ", "review">>),
              Str(theQuery.chars \o <<" ", "worth it">>)>>, breadth)

\* A filter that lets every string pass.
isAnyString(q) == q.str

\* typeof q === 'string' && q.trim().length > 0
isValidQuery(q) == q.str /\ Len(trim(q.chars)) > 0

\* parsed.queries.filter(...).map(...).slice(0, breadth)
validQueries(items, breadth) == sliceTo(mapTrim(SelectSeq(items, isValidQuery)), breadth)

\* The try block of generateSerpQueries on a response: the queries it yields.
queriesOf(r, breadth) ==
    IF ~ r.readable \/ isFalsyString(extractJSON(r.text)) THEN Failed
    ELSE IF r.parsed.kind # "array" THEN Failed
    ELSE IF validQueries(r.parsed.items, breadth) = <<>> THEN Failed
    ELSE [ok |-> TRUE, value |-> validQueries(r.parsed.items, breadth)]

\* A report that lacks its sources.
reportWithoutSources(a) ==
    [executiveSummary |-> a.summary, keyFindings |-> a.keyFindings]

\* report: { executiveSummary, keyFindings, sources } of the analysis
reportOf(a) ==
    [executiveSummary |-> a.summary, keyFindings |-> a.keyFindings,
     sources |-> a.sources]

\* The catch block of deepResearch.
researchFailed ==
    [query |-> theQuery,
     error |-> "Research failed",
     searchQueries |-> <<>>,
     report |-> [executiveSummary |-> <<"Research could not be completed due to an error.">>,
                 keyFindings |-> <<>>, sources |-> <<>>]]

\* A result that always reports an error.
researchResultWithError(qs, a) ==
    [query |-> theQuery, error |-> "Research failed", searchQueries |-> qs,
     report |-> reportOf(a)]

\* return { query, searchQueries, report: {...} } at the end of the try block
researchResult(qs, a) ==
    [query |-> theQuery, searchQueries |-> qs, report |-> reportOf(a)]

\* processContents has returned a: deepResearch returns its report.
researchReturns(qs, a) ==
    /\ pc' = "done"
    /\ settled' = "resolved"
    /\ result' = researchResult(qs, a)
    /\ endCall

\* The chunk loop after chunk i of chs, with the results rs so far: the request
\* for chunk i + 1 is sent, or the loop has ended, processContents returns
\* and deepResearch with it.  g is the generation operation that has ended.
chunkLoopFrom(i, chs, rs, cs, qs, g) ==
    /\ chunkResults' = rs
    /\ IF i < Len(chs)
       THEN /\ ci' = i + 1
            /\ pc' = "chunk"
            /\ beginCall("engine")
            /\ gen' = newGen("processContents")
            /\ UNCHANGED <<settled, result>>
       ELSE /\ ci' = i
            /\ gen' = g
            /\ researchReturns(qs, analysisOf(rs, cs))

\* processContents(query, cs) is called: it chunks cs and starts the loop.
startAnalysis(cs, qs, g) ==
    /\ chunks' = makeChunks(cs)
    /\ chunkLoopFrom(0, makeChunks(cs), <<>>, cs, qs, g)

\* searchWeb(qs[i], depth) is called: the request is sent.
startSearch(i, qs) ==
    /\ qi' = i
    /\ pc' = "sw"
    /\ beginCall("web")
    /\ searches' = Append(searches, newSearch(qs[i]))

\* generateSerpQueries has returned qs: the search loop starts.
serpReturns(qs, g) ==
    /\ searchQueries' = qs
    /\ IF entry.op = "generateSerpQueries"
       THEN /\ pc' = "done"
            /\ settled' = "resolved"
            /\ result' = qs
            /\ endCall
            /\ gen' = g
            /\ UNCHANGED <<qi, contents, chunks, ci, chunkResults, searches>>
       ELSE IF qs # <<>>
       THEN /\ startSearch(1, qs)
            /\ gen' = g
            /\ UNCHANGED <<contents, chunks, ci, chunkResults, settled, result>>
       ELSE /\ startAnalysis(<<>>, qs, g)
            /\ UNCHANGED <<qi, contents, searches>>
    /\ UNCHANGED <<entry, questions>>

\* deepResearch is called with other than breadth 1 and depth 1 and calls
\* generateSerpQueries (or that is started on its own).
StartDeepResearch ==
    /\ pc = "start"
    /\ \/ entry.op = "deepResearch" /\ ~ (entry.breadth = 1 /\ entry.depth = 1)
       \/ entry.op = "generateSerpQueries"
    /\ pc' = "sq"
    /\ beginCall("engine")
    /\ gen' = newGen("generateSerpQueries")
    /\ UNCHANGED <<entry, questions, runvars, settled, result>>
    /\ UNCHANGED notProgram

\* The response to the query-generation prompt arrives.
SerpResponse(r) ==
    /\ pc = "sq"
    /\ cstate = "request"
    /\ IF queriesOf(r, entry.breadth).ok
       THEN serpReturns(queriesOf(r, entry.breadth).value,
                        finished(read(gen, r), "model", FALSE))
       ELSE serpReturns(queryVariations(entry.breadth),
                        finished(IF r.readable THEN noRetryPrompt(read(gen, r)) ELSE gen,
                                 "fallback", FALSE))
    /\ UNCHANGED notProgram

\* retry gives up on the query-generation prompt.
SerpCallRejects ==
    /\ callRejects("sq")
    /\ serpReturns(queryVariations(entry.breadth), finished(gen, "fallback", FALSE))
    /\ UNCHANGED notProgram

\* A search loop that leaves out the last query.
searchLoopEndsEarly(done, qs) == done < Len(qs) - 1

\* for (let i = 0; i < searchQueries.length; i++): after done searches the
\* loop goes on to another
searchLoopGoesOn(done, qs) == done < Len(qs)

\* A run that puts the newest results first.
flatNewestFirst(cs, list) == list \o cs

\* searchResults.push(results) and, after the loop, searchResults.flat(): the
\* contents so far with the results of one more search
flat(cs, list) == cs \o list

\* searchWeb settles with the list (failed: "no", or what failed: the "request"
\* for the last time or the processing of the "response"; paused: the ms it
\* has slept since the answer came) and deepResearch, if it is the caller, goes
\* on: to the pause before the next search, or to processContents.  A
\* rejection is caught by the catch block of deepResearch.
searchSettles(how, list, failed, paused) ==
    /\ searches' = withLastSearch([searches[Len(searches)] EXCEPT
                       !.settles = how, !.failed = failed, !.paused = paused,
                       !.returned = list])
    /\ IF entry.op = "searchWeb"
       THEN /\ pc' = "done"
            /\ settled' = how
            /\ result' = list
            /\ endCall
            /\ UNCHANGED <<gen, contents, chunks, ci, chunkResults>>
       ELSE IF how = "rejected"
       THEN /\ pc' = "done"
            /\ settled' = "resolved"
            /\ result' = researchFailed
            /\ endCall
            /\ UNCHANGED <<gen, contents, chunks, ci, chunkResults>>
       ELSE /\ contents' = flat(contents, list)
            /\ IF searchLoopGoesOn(qi, searchQueries)
               THEN /\ pc' = "dr_pause"
                    /\ endCall
                    /\ UNCHANGED <<gen, chunks, ci, chunkResults, settled, result>>
               ELSE startAnalysis(flat(contents, list), searchQueries, gen)
    /\ UNCHANGED <<entry, questions, searchQueries, qi>>

\* searchWeb is called by the user of the module.
StartSearchWeb ==
    /\ pc = "start"
    /\ entry.op = "searchWeb"
    /\ startSearch(1, <<theQuery>>)
    /\ UNCHANGED <<entry, gen, questions, searchQueries, contents, chunks, ci,
                   chunkResults, settled, result>>
    /\ UNCHANGED notProgram

\* The search service answers.  A result without data makes result.data.map
\* throw, into the catch block; otherwise searchWeb sleeps its 1000 ms.
SearchResponse(d) ==
    /\ pc = "sw"
    /\ cstate = "request"
    /\ IF d.malformed
       THEN searchSettles(searchCatch.settles, searchCatch.value, "response", 0)
       ELSE /\ pc' = "sw_pause"
            /\ endCall
            /\ searches' = withLastSearch([searches[Len(searches)] EXCEPT
                               !.returned = contentsOf(qi, d.data)])
            /\ UNCHANGED <<entry, gen, questions, searchQueries, qi, contents, chunks,
                           ci, chunkResults, settled, result>>
    /\ UNCHANGED notProgram

\* The 1000 ms of searchWeb have elapsed: it returns the contents.
SearchPauseElapses ==
    /\ pc = "sw_pause"
    /\ searchSettles("resolved", searches[Len(searches)].returned, "no", awaitDelay(searchDelay))
    /\ UNCHANGED notProgram

\* retry gives up on the search request: the catch block of searchWeb.
SearchCallRejects ==
    /\ callRejects("sw")
    /\ searchSettles(searchCatch.settles, searchCatch.value, "request", 0)
    /\ UNCHANGED notProgram

\* The 1000 ms deepResearch sleeps between two searches have elapsed.
ResearchPauseElapses ==
    /\ pc = "dr_pause"
    /\ startSearch(qi + 1, searchQueries)
    /\ UNCHANGED <<entry, gen, questions, searchQueries, contents, chunks, ci,
                   chunkResults, settled, result>>
    /\ UNCHANGED notProgram

\* A try block that gets past every response it can read.
isRead(r) == r.readable

\* Does the chunk's try block reach JSON.parse and get an object from it?
isParsed(r) ==
    /\ r.readable
    /\ ~ isFalsyString(extractJSON(r.text))
    /\ r.parsed.kind # "throws"

\* if (parsed.summary && parsed.keyFindings)
isPushed(r) == isParsed(r) /\ r.parsed.summary # <<>> /\ r.parsed.keyFindings.present

\* chunkResults after the response r
pushedTo(rs, r) == IF isPushed(r) THEN Append(rs, r.parsed) ELSE rs

\* The generation operation of a chunk, ended by the response r.
chunkGen(g, r) ==
    IF isPushed(r) THEN finished(read(g, r), "model", FALSE)
    ELSE finished(IF r.readable THEN noRetryPrompt(read(g, r)) ELSE g, "skipped", FALSE)

\* The model answers about chunk ci.  A parsed answer is followed by the
\* 2000 ms pause unless the chunk is the last; everything else continues.
ChunkResponse(r) ==
    /\ pc = "chunk"
    /\ cstate = "request"
    /\ IF isParsed(r) /\ ci < Len(chunks)
       THEN /\ pc' = "chunk_pause"
            /\ endCall
            /\ chunkResults' = pushedTo(chunkResults, r)
            /\ gen' = chunkGen(gen, r)
            /\ UNCHANGED <<ci, settled, result>>
       ELSE chunkLoopFrom(ci, chunks, pushedTo(chunkResults, r), contents,
                          searchQueries, chunkGen(gen, r))
    /\ UNCHANGED <<entry, questions, searchQueries, qi, contents, chunks, searches>>
    /\ UNCHANGED notProgram

\* retry gives up on the request for chunk ci: the catch block continues.
ChunkCallRejects ==
    /\ callRejects("chunk")
    /\ chunkLoopFrom(ci, chunks, chunkResults, contents, searchQueries,
                     finished(gen, "skipped", FALSE))
    /\ UNCHANGED <<entry, questions, searchQueries, qi, contents, chunks, searches>>
    /\ UNCHANGED notProgram

\* The 2000 ms between two chunks have elapsed.
ChunkPauseElapses ==
    /\ pc = "chunk_pause"
    /\ chunkLoopFrom(ci, chunks, chunkResults, contents, searchQueries, gen)
    /\ UNCHANGED <<entry, questions, searchQueries, qi, contents, chunks, searches>>
    /\ UNCHANGED notProgram

Next ==
    \/ StartGenerateFeedback
    \/ \E r \in ListResponses : FeedbackFirstResponse(r)
    \/ \E r \in ListResponses : FeedbackRetryResponse(r)
    \/ FeedbackCallRejects
    \/ StartGenerateWithGemini
    \/ \E r \in ObjectResponses : GeminiFirstResponse(r)
    \/ \E r \in ObjectResponses : GeminiRetryResponse(r)
    \/ GeminiCallRejects
    \/ StartDeepResearch
    \/ \E r \in ListResponses : SerpResponse(r)
    \/ SerpCallRejects
    \/ StartSearchWeb
    \/ \E d \in SearchResponses(entry.depth) : SearchResponse(d)
    \/ SearchPauseElapses
    \/ SearchCallRejects
    \/ ResearchPauseElapses
    \/ \E r \in AnalysisResponses : ChunkResponse(r)
    \/ ChunkCallRejects
    \/ ChunkPauseElapses
    \/ \E e \in CallErrors : RequestFails(e)
    \/ BackoffElapses

Spec == Init /\ [][Next]_vars

(***************************************************************************)
(* Fenced blocks and embedded objects, as a reader of the text sees them:  *)
(* fences pair up in order, braces match the nearest open one.             *)
(***************************************************************************)
FenceIdx(t) == {i \in 0..(Len(t) - 1) : At(t, i) = "F"}

\* The last index < g that holds no whitespace (-1 when there is none).
LastNonWs(t, g) ==
    LET S == {k \in 0..(g - 1) : At(t, k) # " "}
    IN  IF S = {} THEN -1 ELSE SetMax(S)

\* The interior of the block the fences f < g delimit, without the optional
\* tag and the whitespace around it: <<first index, last index>>.
Interior(t, f, g) ==
    LET a == IF f + 1 < g /\ At(t, f + 1) = "j" THEN f + 2 ELSE f + 1
    IN  <<SkipWs(t, a), LastNonWs(t, g)>>

IsJsonInterior(t, f, g) ==
    LET in == Interior(t, f, g)
    IN  /\ f < in[1]
        /\ in[1] < in[2]
        /\ in[2] < g
        /\ At(t, in[1]) = "{"
        /\ At(t, in[2]) = "}"

\* The blocks of the text: the 1st fence with the 2nd, the 3rd with the 4th, ...
Blocks(t) ==
    {<<f, g>> \in FenceIdx(t) \X FenceIdx(t) :
        /\ f < g
        /\ Cardinality({k \in FenceIdx(t) : k < f}) % 2 = 0
        /\ ~ \E k \in FenceIdx(t) : f < k /\ k < g}

JsonBlocks(t) == {b \in Blocks(t) : IsJsonInterior(t, b[1], b[2])}

InteriorText(t, b) ==
    SubSeq(t, Interior(t, b[1], b[2])[1] + 1, Interior(t, b[1], b[2])[2] + 1)

\* The first two fences of the text (-1 when absent), and whether the block
\* they delimit is a JSON block.
FirstFence(t) == indexOf(t, "F")

SecondFence(t) == indexOfFrom(t, "F", FirstFence(t) + 1)

FirstBlockIsJson(t) ==
    LET f == FirstFence(t)
        g == indexOfFrom(t, "F", f + 1)
    IN  f # -1 /\ g # -1 /\ IsJsonInterior(t, f, g)

FirstBlock(t) == <<FirstFence(t), SecondFence(t)>>

\* C6 (as stated): a text that contains a fenced JSON block yields the interior
\* of a fenced JSON block of the text, in every variant.
C6_AnyFencedBlockReturned ==
    (xvariant # "none" /\ JsonBlocks(text) # {}) =>
        \E b \in JsonBlocks(text) : xout = InteriorText(text, b)

\* C6 (amended): when the first two fences of the text delimit a JSON block
\* (optional json tag, whitespace, "{" ... "}", whitespace), every variant returns
\* that block's interior without the tag and the surrounding whitespace,
\* whatever surrounds the block and whatever braces occur elsewhere.
C6_FirstFencedBlockReturned ==
    (xvariant # "none" /\ FirstBlockIsJson(text)) =>
        xout = InteriorText(text, FirstBlock(text))

\* C6 witness: a variant has run on a text whose first block is a JSON block
\* with a nested brace inside, a stray "{" before and a stray "}" after it.
C6_Witness ==
    /\ xvariant = "gemini"
    /\ FirstBlockIsJson(text)
    /\ xout = InteriorText(text, FirstBlock(text))
    /\ Len(xout) > 2
    /\ \E i \in 0..(FirstBlock(text)[1] - 1) : At(text, i) = "{"
    /\ \E i \in (FirstBlock(text)[2] + 1)..(Len(text) - 1) : At(text, i) = "}"

\* The index of the "}" that closes the "{" at b (-1 when none does): the scan
\* from i on with d braces open.
RECURSIVE closeOf(_, _, _)
closeOf(t, i, d) ==
    IF i >= Len(t) THEN -1
    ELSE IF At(t, i) = "{" THEN closeOf(t, i + 1, d + 1)
    ELSE IF At(t, i) = "}" THEN (IF d = 1 THEN i ELSE closeOf(t, i + 1, d - 1))
    ELSE closeOf(t, i + 1, d)

\* The balanced objects of the text: <<b, e>> with "{" at b and its matching "}" at e.
Pairs(t) ==
    {<<b, closeOf(t, b + 1, 1)>> :
        b \in {i \in 0..(Len(t) - 1) : At(t, i) = "{" /\ closeOf(t, i + 1, 1) # -1}}

\* Those that lie in no other one.
TopObjects(t) ==
    {p \in Pairs(t) : ~ \E q \in Pairs(t) : q[1] < p[1] /\ p[2] < q[2]}

EmbedsOneObject(t) == indexOf(t, "F") = -1 /\ Cardinality(TopObjects(t)) = 1

TheObject(t) == CHOOSE p \in TopObjects(t) : TRUE

ObjectText(t) == SubSeq(t, TheObject(t)[1] + 1, TheObject(t)[2] + 1)

\* Whether character c occurs in t[lo..hi].
Occurs(t, c, lo, hi) == \E i \in lo..hi : At(t, i) = c

\* C7 (as stated): on unfenced text that embeds one balanced object every
\* variant returns exactly the object, whatever stray braces the prose holds.
C7_ObjectReturnedDespiteStrayBraces ==
    (xvariant # "none" /\ EmbedsOneObject(text)) => xout = ObjectText(text)

\* C7 (amended): on unfenced text that embeds one balanced object, the
\* gemini-provider variant returns exactly the object when no brace precedes
\* it, and the feedback and research-engine variants when no "{" precedes it
\* and no "}" follows it.
C7_ObjectReturnedWithoutBlockingBraces ==
    (xvariant # "none" /\ EmbedsOneObject(text)) =>
        LET b == TheObject(text)[1]
            e == TheObject(text)[2]
            last == Len(text) - 1
        IN  /\ (/\ xvariant = "gemini"
                /\ ~ Occurs(text, "{", 0, b - 1)
                /\ ~ Occurs(text, "}", 0, b - 1))
               => xout = ObjectText(text)
            /\ (/\ xvariant \in {"engine", "feedback"}
                /\ ~ Occurs(text, "{", 0, b - 1)
                /\ ~ Occurs(text, "}", e + 1, last))
               => xout = ObjectText(text)

\* C7 witness: the research-engine variant has returned a nested object from
\* unfenced text with a stray "}" before it and a stray "{" after it.
C7_Witness ==
    /\ xvariant = "engine"
    /\ EmbedsOneObject(text)
    /\ Occurs(text, "}", 0, TheObject(text)[1] - 1)
    /\ Occurs(text, "{", TheObject(text)[2] + 1, Len(text) - 1)
    /\ Len(ObjectText(text)) > 3
    /\ xout = ObjectText(text)

(***************************************************************************)
(* retry: what it settles with, and how long it waits.                     *)
(***************************************************************************)
RECURSIVE SumSeq(_)
SumSeq(q) == IF q = <<>> THEN 0 ELSE q[1] + SumSeq(Tail(q))

RECURSIVE Pow2(_)
Pow2(k) == IF k = 0 THEN 1 ELSE 2 * Pow2(k - 1)

\* C3: retry resolves with fn's value once fn succeeds after at most `retries`
\* failures, and rejects only after retries + 1 failures in a row, with the
\* error of the last invocation.
C3_SettlesWithLastOutcome ==
    /\ rpc = "resolved" =>
          /\ rout = [value |-> Len(rerrs) + 1]
          /\ Len(rerrs) <= rinput.retries
    /\ rpc = "rejected" =>
          /\ Len(rerrs) = rinput.retries + 1
          /\ rout = [error |-> rerrs[Len(rerrs)], call |-> rinput.retries + 1]
    /\ rpc \in {"call", "delay"} => Len(rerrs) <= rinput.retries

\* C3 witness: fn has failed 3 times, the first time with another error than
\* the last, and retry(fn, 2, ...) has rejected; or fn has failed twice and
\* retry(fn, 3, ...) has resolved.
C3_Witness ==
    \/ /\ rpc = "rejected"
       /\ rinput.retries = 2
       /\ Len(rerrs) = 3
       /\ rerrs[1] # rerrs[3]
       /\ rout.error = rerrs[3]
    \/ /\ rpc = "resolved"
       /\ rinput.retries = 3
       /\ Len(rerrs) = 2
       /\ rout = [value |-> 3]

\* C4 (as stated): every wait after the first is twice the wait before it,
\* whatever the failures, and the waits before a success after k failures sum
\* to firstWait * (2^k - 1).
C4_EveryWaitDoubles ==
    /\ \A i \in 2..Len(rwaits) : rwaits[i] = 2 * rwaits[i - 1]
    /\ (rpc = "resolved" /\ rwaits # <<>>) =>
          SumSeq(rwaits) = rwaits[1] * (Pow2(Len(rwaits)) - 1)

\* What each wrapper takes for a rate limit: web-search the status code 429,
\* feedback and the research engine a message that contains 429 or quota.
TakenForRateLimit(v, e) ==
    IF v = "web" THEN e.statusCode = 429 ELSE e.message \in {"429", "quota"}

\* By how much a wrapper lengthens the wait after a rate limit.
RateLimitFactor(v) == IF v = "feedback" THEN 2 ELSE 4

\* C4 (amended): a wait after the first is twice the wait before it when the
\* failure it follows is not taken for a rate limit, and 8 times (feedback: 4
\* times) the wait before it when it is; so the waits before a success after k
\* failures sum to firstWait * (2^k - 1) when no failure after the first is
\* taken for a rate limit.
C4_WaitDoublesUnlessRateLimited ==
    /\ \A i \in 2..Len(rwaits) :
          rwaits[i] = 2 * rwaits[i - 1]
                        * (IF TakenForRateLimit(rvariant, rerrs[i])
                           THEN RateLimitFactor(rvariant) ELSE 1)
    /\ (/\ rpc = "resolved"
        /\ rwaits # <<>>
        /\ \A i \in 2..Len(rwaits) : ~ TakenForRateLimit(rvariant, rerrs[i]))
       => SumSeq(rwaits) = rwaits[1] * (Pow2(Len(rwaits)) - 1)

\* C4 witness: the engine's retry has resolved after three failures, the
\* second a rate limit (8 times the first wait), the third not (twice the second).
C4_Witness ==
    /\ rvariant = "engine"
    /\ rpc = "resolved"
    /\ Len(rwaits) = 3
    /\ rwaits[2] = 8 * rwaits[1]
    /\ rwaits[3] = 2 * rwaits[2]

\* C5 (as stated): in each wrapper a first failure with status code 429 or a
\* message containing 429 or quota is followed by a wait of 4 x baseDelay, any
\* other first failure by a wait of baseDelay.
C5_FirstWaitFourfoldOnRateLimit ==
    rwaits # <<>> =>
        rwaits[1] =
            IF rerrs[1].statusCode = 429 \/ rerrs[1].message \in {"429", "quota"}
            THEN 4 * rinput.baseDelay
            ELSE rinput.baseDelay

\* C5 (amended): the first wait is 4 x baseDelay in web-search when the first
\* error has status code 429, 4 x baseDelay in the research engine and
\* 2 x baseDelay in feedback when its message contains 429 or quota, and
\* baseDelay after any other first failure of that wrapper.
C5_FirstWaitPerWrapper ==
    rwaits # <<>> =>
        /\ rvariant = "web" =>
              rwaits[1] = IF rerrs[1].statusCode = 429
                          THEN 4 * rinput.baseDelay ELSE rinput.baseDelay
        /\ rvariant = "engine" =>
              rwaits[1] = IF rerrs[1].message \in {"429", "quota"}
                          THEN 4 * rinput.baseDelay ELSE rinput.baseDelay
        /\ rvariant = "feedback" =>
              rwaits[1] = IF rerrs[1].message \in {"429", "quota"}
                          THEN 2 * rinput.baseDelay ELSE rinput.baseDelay

\* C5 witness: feedback's retry, called with its default baseDelay, has waited
\* 2000 ms after a first failure whose message contains quota.
C5_Witness ==
    /\ rvariant = "feedback"
    /\ rinput.baseDelay = defaultBaseDelay("feedback")
    /\ rwaits # <<>>
    /\ rerrs[1].message = "quota"
    /\ rwaits[1] = 2000

(***************************************************************************)
(* The limiter.                                                            *)
(***************************************************************************)
\* C2: of the tasks submitted to one limiter at most n are executing at any
\* moment: 2 in web-search and in the research engine, 5 in feedback.
C2_AtMostNExecuting ==
    Cardinality(active) <= (IF lname = "feedback" THEN 5 ELSE 2)

\* C2 witness: more tasks than the cap were submitted to feedback's limiter;
\* 5 are executing and the others wait.
C2_Witness ==
    /\ lname = "feedback"
    /\ submitted = 7
    /\ Cardinality(active) = 5
    /\ Len(queue) = 2


(***************************************************************************)
(* The program: deepResearch, searchWeb, generateFeedback and the          *)
(* generation operations                                                   *)
(***************************************************************************)
ReportFields == {"executiveSummary", "keyFindings", "sources"}

\* A step that a run which has not returned waits for: a call is made, a delay
\* or a pause elapses, or the request in flight is answered, be it by a
\* response that cannot be read or a result without data.
RunGoesOn ==
    \/ StartGenerateFeedback
    \/ StartDeepResearch
    \/ BackoffElapses
    \/ SearchPauseElapses
    \/ ResearchPauseElapses
    \/ ChunkPauseElapses
    \/ FeedbackFirstResponse(Unreadable)
    \/ FeedbackRetryResponse(Unreadable)
    \/ SerpResponse(Unreadable)
    \/ SearchResponse([malformed |-> TRUE, data |-> <<>>])
    \/ ChunkResponse([readable |-> FALSE, text |-> <<>>, parsed |-> AnalysisThrows])

\* C1: whatever the model and the search service answer, deepResearch never
\* rejects; as long as it has not returned it is not stuck (it makes a call,
\* or waits for a delay or for the answer to a request, and goes on when that
\* comes); and the value it resolves to has a report with executiveSummary,
\* keyFindings and sources.
C1_ResearchResolvesWithReport ==
    entry.op = "deepResearch" =>
        /\ settled # "rejected"
        /\ pc # "done" => settled = "pending" /\ ENABLED RunGoesOn
        /\ pc = "done" =>
              /\ settled = "resolved"
              /\ "report" \in DOMAIN result
              /\ ReportFields \subseteq DOMAIN result.report

\* A run of two searches has returned although query generation fell back, a
\* search failed and the analysis fell back.
C1_Witness ==
    /\ entry.op = "deepResearch"
    /\ pc = "done"
    /\ searchQueries = queryVariations(2)
    /\ Len(searches) = 2
    /\ searches[1].failed = "request"
    /\ result.report = reportOf(fallbackAnalysis(contents))

\* C8: searchWeb never rejects; a search whose request has failed for the
\* last time, or whose response could not be processed, resolves to the empty
\* list, and a run of deepResearch still makes every search and returns
\* without an error.
C8_FailedSearchReturnsEmptyList ==
    /\ entry.op = "searchWeb" => settled # "rejected"
    /\ \A i \in 1..Len(searches) :
          /\ searches[i].settles # "rejected"
          /\ searches[i].failed # "no" =>
                searches[i].settles = "resolved" /\ searches[i].returned = <<>>
    /\ entry.op = "deepResearch" /\ pc = "done" =>
          /\ Len(searches) = Len(searchQueries)
          /\ "error" \notin DOMAIN result

\* The first search of a run has failed with its retries exhausted, the
\* second one with a response without data, and the run has returned.
C8_Witness ==
    /\ entry.op = "deepResearch"
    /\ pc = "done"
    /\ Len(searches) = 2
    /\ searches[1].failed = "request"
    /\ searches[2].failed = "response"
    /\ settled = "resolved"

\* generateFeedback has returned after two responses, neither with JSON in it.
EveryResponseWasNonJson ==
    /\ gen.op = "generateFeedback"
    /\ gen.outcome # "pending"
    /\ Len(gen.texts) = 2
    /\ \A i \in 1..2 : extractJSONFeedback(gen.texts[i]) = Null

AreQuestions(qs) ==
    \A i \in 1..Len(qs) : qs[i].str /\ qs[i].chars # <<>> /\ includes(qs[i].chars, "?")

\* C9 as stated: when the model returns non-JSON text on every request,
\* generateFeedback returns exactly numQuestions non-empty strings, each
\* containing '?', for any numQuestions.
C9_ExactlyNumQuestions ==
    EveryResponseWasNonJson =>
        Len(questions) = entry.numQuestions /\ AreQuestions(questions)

\* C9: when the model returns non-JSON text on every request, generateFeedback
\* returns exactly min(numQuestions, 3) non-empty strings, each containing
\* '?': the three default questions, cut to numQuestions.
C9_AtMostThreeDefaultQuestions ==
    EveryResponseWasNonJson =>
        /\ Len(questions) = Min(entry.numQuestions, Len(defaultQuestions))
        /\ AreQuestions(questions)
        /\ questions = sliceTo(defaultQuestions, entry.numQuestions)

\* generateFeedback, asked for three questions, has returned three after two
\* responses without JSON.
C9_Witness ==
    /\ EveryResponseWasNonJson
    /\ entry.op = "generateFeedback"
    /\ entry.numQuestions = 3
    /\ Len(questions) = 3
    /\ pc = "done"

\* C10 as stated: in each generation operation, when extraction or validation
\* of the first response fails, exactly one further attempt with the amended
\* prompt is made, and the fallback is used only after it has failed too.
C10_EveryOperationRetriesOnce ==
    gen.firstFailed =>
        /\ gen.prompts = <<"first", "retry">>
        /\ gen.outcome \in {"fallback", "skipped"} => gen.secondFailed

\* C10: generateFeedback and generateWithGemini send the amended prompt once,
\* exactly when extraction or validation of the first response has failed, and
\* fall back after such a failure only when the second attempt has failed
\* too; generateSerpQueries and the analysis of a chunk send one prompt only,
\* and fall back, or skip the chunk, when the first response fails.
C10_OnlyFeedbackAndGeminiRetryOnce ==
    /\ gen.op \in {"generateFeedback", "generateWithGemini"} =>
          /\ gen.prompts = IF gen.firstFailed THEN <<"first", "retry">> ELSE <<"first">>
          /\ gen.firstFailed /\ gen.outcome = "fallback" => gen.secondFailed
          /\ gen.secondFailed => gen.firstFailed
    /\ gen.op \in {"generateSerpQueries", "processContents"} =>
          /\ gen.prompts = <<"first">>
          /\ ~ gen.secondFailed
          /\ gen.firstFailed =>
                gen.outcome = IF gen.op = "processContents" THEN "skipped" ELSE "fallback"

\* generateWithGemini has fallen back after its first response had no JSON
\* in it and its second attempt failed.
C10_Witness ==
    /\ gen.op = "generateWithGemini"
    /\ gen.firstFailed
    /\ gen.secondFailed
    /\ gen.prompts = <<"first", "retry">>
    /\ gen.outcome = "fallback"
    /\ pc = "done"

AreStrings(l) == \A i \in 1..Len(l) : l[i].str

\* The value a run of deepResearch past the sentinel branch returned.
FullRunReturned ==
    /\ entry.op = "deepResearch"
    /\ ~ (entry.breadth = 1 /\ entry.depth = 1)
    /\ pc = "done"

\* C11 as stated: malformed model responses never make generateFeedback,
\* generateSerpQueries, processContents or generateWithGemini reject, and each
\* resolves to a well-typed value: a list of question strings, a list of
\* query strings, an analysis whose findings are objects and whose sources
\* are strings, an {object}.
C11_MalformedResponseGivesWellTypedValue ==
    /\ settled # "rejected"
    /\ pc = "done" /\ entry.op \in {"generateFeedback", "generateSerpQueries"} =>
          AreStrings(result)
    /\ pc = "done" /\ entry.op = "generateWithGemini" => "object" \in DOMAIN result
    /\ FullRunReturned =>
          /\ AreStrings(searchQueries)
          /\ AreStrings(result.report.sources)
          /\ \A i \in 1..Len(result.report.keyFindings) :
                ~ result.report.keyFindings[i].isNull

\* processContents has returned an analysis whose sources hold undefined: the
\* model answered about a chunk with an object that has no sources.
C11_Witness ==
    /\ FullRunReturned
    /\ chunkResults # <<>>
    /\ \E i \in 1..Len(chunkResults) : ~ chunkResults[i].sources.present
    /\ \E i \in 1..Len(result.report.sources) : ~ result.report.sources[i].str

PairwiseDistinct(l) == \A i, j \in 1..Len(l) : i # j => l[i] # l[j]

TitlesOf(fs) == [i \in 1..Len(fs) |-> fs[i].title]

\* The places of all where a title occurs for the first time.
FirstPlaces(all) == {i \in 1..Len(all) : \A j \in 1..(i - 1) : all[j].title # all[i].title}

\* The k-th smallest element of the set I of numbers.
NthOf(I, k) == CHOOSE i \in I : Cardinality({j \in I : j <= i}) = k

\* kept is all without the findings whose title an earlier finding has.
IsFirstOccurrences(kept, all) ==
    /\ Len(kept) = Cardinality(FirstPlaces(all))
    /\ \A k \in 1..Len(kept) : kept[k] = all[NthOf(FirstPlaces(all), k)]

\* The analysis was merged from the chunks' results.
AnalysisWasMerged == chunkResults # <<>> /\ ~ mergeThrows(chunkResults)

C13_ChunksWithinMaxChunkSize ==
    (\A k \in 1..Len(contents) : contents[k].len <= maxChunkSize) =>
        \A i \in 1..Len(chunks) : chunks[i].len <= maxChunkSize

\* The request in flight is about a chunk longer than 15,000 characters, made
\* of one content item of 15,000 characters after the separator.
C13_Witness ==
    /\ pc = "chunk"
    /\ cstate = "request"
    /\ Len(chunks[ci].items) = 1
    /\ chunks[ci].items[1].len = maxChunkSize
    /\ chunks[ci].len = maxChunkSize + separatorLength

\* deepResearch, called with breadth 1 and depth 1, has returned.
SentinelRunReturned ==
    /\ entry.op = "deepResearch"
    /\ entry.breadth = 1 /\ entry.depth = 1
    /\ pc = "done"

EmptyReport == [executiveSummary |-> <<>>, keyFindings |-> <<>>, sources |-> <<>>]

\* C14 as stated: in sentinel mode deepResearch returns exactly 3 feedback
\* questions, an empty report and no search queries, whatever the model does.
C14_SentinelReturnsThreeQuestions ==
    SentinelRunReturned =>
        /\ Len(result.feedbackQuestions) = 3
        /\ result.report = EmptyReport
        /\ result.searchQueries = <<>>

\* C14: in sentinel mode deepResearch returns an empty report, no search
\* queries and between 1 and 3 feedback questions, each a question string:
\* exactly the 3 default ones when generateFeedback falls back, and as many
\* valid ones as the model gave, up to 3, otherwise.
C14_SentinelReturnsOneToThreeQuestions ==
    SentinelRunReturned =>
        /\ Len(result.feedbackQuestions) \in 1..3
        /\ AreQuestions(result.feedbackQuestions)
        /\ gen.outcome = "fallback" => result.feedbackQuestions = defaultQuestions
        /\ result.report = EmptyReport
        /\ result.searchQueries = <<>>

\* The model gave one valid question and the sentinel run returned just it.
C14_Witness ==
    /\ SentinelRunReturned
    /\ gen.outcome = "model"
    /\ result.feedbackQuestions = <<Str(<<"a", "?">>)>>
    /\ result.report = EmptyReport

\* C15 as stated: a full run returns at most breadth search queries, a
\* non-empty executive summary and sources without duplicates, whatever the
\* model and the searches do.
C15_FullRunSummaryNonEmpty ==
    FullRunReturned =>
        /\ Len(result.searchQueries) <= entry.breadth
        /\ result.report.executiveSummary # <<>>
        /\ PairwiseDistinct(result.report.sources)

\* A full run has returned an empty executive summary: the one chunk was
\* answered with an object whose summary is the empty array.
C15_Witness ==
    /\ FullRunReturned
    /\ Len(chunkResults) = 1
    /\ chunkResults[1].summary = EmptyArray
    /\ result.report.executiveSummary = <<>>
    /\ Len(result.searchQueries) <= entry.breadth

(***************************************************************************)
(* The limiter: order and outcomes                                         *)
(***************************************************************************)
\* C16: the tasks submitted to a limiter start in the order they were
\* submitted, those that had to wait included: a task never starts before one
\* submitted earlier; and the promise returned for a task settles only once
\* that task has run, as that task's and no other's outcome.
C16_StartsInOrderAndOwnOutcome ==
    /\ \A i, j \in 1..Len(started) : i < j => started[i] < started[j]
    /\ \A i \in 1..Len(queue) : \A j \in 1..Len(started) : started[j] < queue[i]
    /\ \A t \in 1..Len(promise) :
          promise[t].state # "pending" =>
              /\ promise[t].of = t
              /\ t \notin active
              /\ \E j \in 1..Len(started) : started[j] = t

\* Five tasks were submitted to the web-search limiter; the third and the
\* fourth had to wait and started in that order, the first resolved, the
\* third rejected, and the fifth still waits.
C16_Witness ==
    /\ lname = "web"
    /\ started = <<1, 2, 3, 4>>
    /\ queue = <<5>>
    /\ promise[1].state = "resolved"
    /\ promise[3].state = "rejected"
    /\ promise[3].of = 3

NonBlank(c) == \E i \in 1..Len(c) : c[i] # " "

IsTrimmed(c) == c # <<>> => c[1] # " " /\ c[Len(c)] # " "

\* The list generateFeedback returned, if it has returned.
FeedbackListIsValid ==
    gen.op = "generateFeedback" /\ pc = "done" =>
        /\ Len(questions) <= entry.numQuestions
        /\ \A i \in 1..Len(questions) :
              /\ questions[i].str
              /\ IsTrimmed(questions[i].chars)
              /\ includes(questions[i].chars, "?")

\* C17 as stated: generateFeedback returns at most numQuestions trimmed
\* strings containing '?', and generateSerpQueries at most breadth strings
\* that are non-empty after trimming, on the model path and on the fallback
\* path.
C17_ListsValidOnBothPaths ==
    /\ FeedbackListIsValid
    /\ Len(searchQueries) <= entry.breadth
    /\ \A i \in 1..Len(searchQueries) :
          searchQueries[i].str /\ NonBlank(searchQueries[i].chars)

\* C17: generateFeedback returns at most numQuestions trimmed strings
\* containing '?' on both paths; generateSerpQueries returns at most breadth
\* strings, each non-empty after trimming on the model path, and on the
\* fallback path the query itself followed by variations of it, so that each
\* is non-empty after trimming when the query is.
C17_ListsValidIfQueryIsNotBlank ==
    /\ FeedbackListIsValid
    /\ Len(searchQueries) <= entry.breadth
    /\ \A i \in 1..Len(searchQueries) :
          /\ searchQueries[i].str
          /\ NonBlank(searchQueries[i].chars)
                \/ (i = 1 /\ gen.op = "generateSerpQueries" /\ gen.outcome = "fallback"
                          /\ searchQueries[i] = entry.query /\ ~ NonBlank(entry.query.chars))
    /\ pc = "done" /\ entry.op = "generateSerpQueries" /\ gen.outcome = "model" =>
          \A i \in 1..Len(result) : IsTrimmed(result[i].chars)

\* generateSerpQueries, asked for two queries, has returned the one string of
\* the model's answer that is not blank.
C17_Witness ==
    /\ entry.op = "generateSerpQueries"
    /\ entry.breadth = 2
    /\ pc = "done"
    /\ gen.outcome = "model"
    /\ result = <<Str(<<"a">>)>>

\* C18 as stated: every call of searchWeb pauses 1 second before it returns,
\* when the search succeeded and when it failed.
C18_EverySearchPauses ==
    \A i \in 1..Len(searches) :
        searches[i].settles # "pending" => searches[i].paused = 1000

\* C18: a call of searchWeb whose request was answered and processed pauses 1
\* second before it returns the contents; a call that fails, its retries
\* exhausted or its response unusable, returns the empty list without a pause.
C18_OnlySuccessfulSearchPauses ==
    \A i \in 1..Len(searches) :
        /\ searches[i].settles # "pending" =>
              searches[i].paused = (IF searches[i].failed = "no" THEN 1000 ELSE 0)
        /\ searches[i].settles = "pending" => searches[i].paused = 0
        /\ pc = "sw_pause" /\ i = Len(searches) =>
              searches[i].settles = "pending" /\ searches[i].failed = "no"

\* Of the two searches of a run the first failed and returned at once, the
\* second succeeded and returned a page after its pause.
C18_Witness ==
    /\ entry.op = "deepResearch"
    /\ Len(searches) = 2
    /\ searches[1].failed = "request"
    /\ searches[1].paused = 0
    /\ searches[2].settles = "resolved"
    /\ searches[2].failed = "no"
    /\ searches[2].paused = 1000
    /\ searches[2].returned # <<>>

\* The request for the next chunk is sent.
NextChunkRequested == ci >= 1 /\ ci' = ci + 1 /\ pc' = "chunk"

RECURSIVE ReturnedBy(_)
ReturnedBy(ss) ==
    IF ss = <<>> THEN <<>>
    ELSE ReturnedBy(SubSeq(ss, 1, Len(ss) - 1))
             \o (IF ss[Len(ss)].settles = "resolved" THEN ss[Len(ss)].returned ELSE <<>>)

\* At every moment of a run of deepResearch: the searches made so far are
\* for the first queries, in their order; all but the last have returned;
\* and the contents are what they returned, in that order.
SearchesInQueryOrder ==
    entry.op = "deepResearch" =>
        /\ Len(searches) <= Len(searchQueries)
        /\ \A i \in 1..Len(searches) : searches[i].query = searchQueries[i]
        /\ \A i \in 1..(Len(searches) - 1) : searches[i].settles = "resolved"
        /\ pc \in {"sw", "sw_pause"} =>
              qi = Len(searches) /\ searches[qi].settles = "pending"
        /\ contents = ReturnedBy(searches)
        /\ \A k \in 1..Len(contents) : \A l \in 1..Len(contents) :
              k < l => contents[k].q <= contents[l].q

\* A search after the first is issued.
LaterSearchIssued == Len(searches) >= 1 /\ Len(searches') = Len(searches) + 1

\* C20: the searches of a run are made one at a time in the order of the
\* queries: a search is issued only once the one before has returned and the
\* 1-second pause of deepResearch has elapsed, so at most one is in flight;
\* and the contents are the searches' results concatenated in query order.
C20_SearchesSequentialInOrder ==
    /\ []SearchesInQueryOrder
    /\ [][LaterSearchIssued =>
             /\ pc = "dr_pause"
             /\ searches[Len(searches)].settles = "resolved"
             /\ cstate = "none"]_vars

\* Both searches of a run have returned a page each, and the contents are the
\* page of the first query followed by the page of the second.
C20_Witness ==
    /\ entry.op = "deepResearch"
    /\ Len(searches) = 2
    /\ searches[1].returned # <<>>
    /\ searches[2].settles = "resolved"
    /\ searches[2].returned # <<>>
    /\ Len(contents) = 2
    /\ contents[1].q = 1
    /\ contents[2].q = 2

\* The first request of a call is sent (a request that retry sends again
\* after a delay is not a new call).
CallIssued == cstate' = "request" /\ (cstate = "none" \/ pc' # pc \/ ci' # ci)

\* The calls of generateWithGemini.
DirectCalls == {"gw1", "gw2"}

\* The call that starts is limit(() => retry(...)) of its module: the
\* default retries and base delay are ahead of it.
IssuedInLimitAndRetry ==
    /\ pc' \in RetriedCalls
    /\ cretries' = defaultRetries
    /\ cbase' = defaultBaseDelay(wrapperAt(pc'))

\* C21 as stated: every request of generateFeedback, generateSerpQueries,
\* processContents, generateWithGemini and searchWeb is issued inside a
\* limiter task and inside the retry wrapper.
C21_EveryRequestInLimitAndRetry ==
    [][CallIssued => IssuedInLimitAndRetry]_vars

\* C21: the requests of generateFeedback, generateSerpQueries,
\* processContents and searchWeb are issued inside a limiter task and the
\* retry wrapper; the two requests of generateWithGemini are sent directly,
\* and a failure of one is never followed by a delay and another attempt.
C21_AllButGeminiInLimitAndRetry ==
    [][/\ CallIssued =>
             IF pc' \in DirectCalls
             THEN cretries' = 0 /\ cbase' = 0
             ELSE IssuedInLimitAndRetry
       /\ pc \in DirectCalls => cstate' # "delay"
       /\ cstate' = "delay" /\ cstate = "request" =>
             pc \in RetriedCalls /\ cretries' = cretries - 1]_vars

\* retry is sending a request again after a failure.
C21_Witness ==
    /\ pc \in RetriedCalls
    /\ cstate = "request"
    /\ cretries = defaultRetries - 1
    /\ cbase > defaultBaseDelay(wrapperAt(pc))

\* deepResearch is in its sentinel branch: it has called generateFeedback.
InSentinelBranch == entry.op = "deepResearch" /\ gen.op = "generateFeedback"

\* C22 as stated: the sentinel branch of deepResearch (feedback questions
\* only, no query generation, no search) is taken only by the call main makes
\* for the questions; the run main starts with the user's clamped breadth and
\* depth always generates search queries, searches and analyses.
C22_SentinelOnlyForQuestions ==
    /\ InSentinelBranch => entry.call = "questions"
    /\ entry.call = "research" /\ pc = "done" =>
          /\ result.searchQueries # <<>>
          /\ searches # <<>>
          /\ "feedbackQuestions" \notin DOMAIN result

\* The run main started with the user's breadth 1 and depth 1 has returned
\* feedback questions, no search queries and an empty report.
C22_Witness ==
    /\ entry.call = "research"
    /\ pc = "done"
    /\ entry.breadth = 1 /\ entry.depth = 1
    /\ result.searchQueries = <<>>
    /\ result.report = EmptyReport
    /\ searches = <<>>

\* Query generation fell back to the variations of the query.
QueriesFellBack == searchQueries = queryVariations(entry.breadth)

\* A search of the run failed and was answered with the empty list.
ASearchFailed == \E i \in 1..Len(searches) : searches[i].failed # "no"

\* The analysis fell back to the raw results.
AnalysisFellBack == result.report = reportOf(fallbackAnalysis(contents))

\* A phase of the run that has returned failed and was recovered.
RecoveredRunReturned ==
    FullRunReturned /\ (QueriesFellBack \/ ASearchFailed \/ AnalysisFellBack)

\* C23 as stated: whenever a phase of a run fails and is recovered (query
\* generation falls back, a search fails, analysis falls back to raw
\* results), the object deepResearch returns carries an error field.
C23_RecoveredRunCarriesError ==
    RecoveredRunReturned => "error" \in DOMAIN result

\* C23: no object deepResearch returns carries an error field, whichever
\* phases failed and were recovered; a recovered run returns the same
\* {query, searchQueries, report} and only the analysis fallback shows, as
\* the fixed summary and source of the report.
C23_RecoveredRunCarriesNoError ==
    /\ entry.op = "deepResearch" /\ pc = "done" =>
          /\ settled = "resolved"
          /\ "error" \notin DOMAIN result
    /\ RecoveredRunReturned =>
          /\ DOMAIN result = {"query", "searchQueries", "report"}
          /\ result.searchQueries = searchQueries
          /\ AnalysisFellBack =>
                /\ result.report.executiveSummary = fallbackAnalysis(contents).summary
                /\ result.report.sources = <<Str(<<"Error processing sources">>)>>

\* A run has returned in which query generation fell back, the two searches
\* failed and the analysis fell back.
C23_Witness ==
    /\ RecoveredRunReturned
    /\ QueriesFellBack
    /\ Len(searches) = 2
    /\ \A i \in 1..Len(searches) : searches[i].failed # "no"
    /\ AnalysisFellBack

\* The phase of a full run: 1 GeneratingQueries, 2 Searching, 3 Analyzing,
\* 4 Reporting (0 before the run has started).
PhaseAt(p) ==
    CASE p = "sq" -> 1
      [] p \in {"sw", "sw_pause", "dr_pause"} -> 2
      [] p \in {"chunk", "chunk_pause"} -> 3
      [] p = "done" -> 4
      [] OTHER -> 0

\* deepResearch runs past its sentinel branch.
IsFullRun == entry.op = "deepResearch" /\ ~ (entry.breadth = 1 /\ entry.depth = 1)

\* What has happened when a full run is in a phase: the queries are there
\* before any search; every query has been searched and every search has
\* returned before any analysis request; and a request in flight is the one
\* of the phase.
PhasesInOrder ==
    IsFullRun =>
        /\ PhaseAt(pc) <= 1 => searches = <<>> /\ chunks = <<>> /\ ci = 0
        /\ PhaseAt(pc) = 2 =>
              /\ searchQueries # <<>>
              /\ Len(searches) \in 1..Len(searchQueries)
              /\ chunks = <<>> /\ ci = 0
        /\ PhaseAt(pc) \in {3, 4} =>
              /\ Len(searches) = Len(searchQueries)
              /\ \A i \in 1..Len(searches) : searches[i].settles = "resolved"
        /\ cstate # "none" =>
              gen.op = (CASE PhaseAt(pc) = 1 -> "generateSerpQueries"
                          [] PhaseAt(pc) = 2 -> "generateSerpQueries"
                          [] PhaseAt(pc) = 3 -> "processContents"
                          [] OTHER -> "none")
        /\ cstate # "none" /\ PhaseAt(pc) = 2 => pc = "sw" /\ gen.outcome # "pending"

\* C24: a full run passes through GeneratingQueries, Searching, Analyzing and
\* Reporting in that order and never goes back: no search is issued before
\* query generation has finished, no analysis request before the last search
\* has returned, and no query-generation or search request once analysis has
\* begun.
C24_PhasesInOrder ==
    /\ []PhasesInOrder
    /\ [][IsFullRun =>
             /\ PhaseAt(pc') >= PhaseAt(pc)
             /\ \/ PhaseAt(pc') <= PhaseAt(pc) + 1
                \/ PhaseAt(pc) = 2 /\ pc' = "done" /\ chunks' = <<>>
             /\ PhaseAt(pc) >= 2 => searchQueries' = searchQueries
             /\ PhaseAt(pc) >= 3 => searches' = searches /\ contents' = contents]_vars

\* A full run is reporting after two searches and two analysis requests.
C24_Witness ==
    /\ IsFullRun
    /\ pc = "done"
    /\ Len(searchQueries) = 2
    /\ Len(searches) = 2
    /\ Len(chunks) = 2
    /\ ci = 2

(***************************************************************************)
(* retry on its own and generateFeedback, with every invocation of fn      *)
(* settling and every delay elapsing.                                      *)
(***************************************************************************)
\* generateFeedback is called, by the user of the module or by deepResearch
\* in its sentinel branch.
InitFeedback ==
    /\ Init
    /\ \/ entry.op = "generateFeedback"
       \/ entry.op = "deepResearch" /\ entry.breadth = 1 /\ entry.depth = 1

InitSettles == InitRetry \/ InitFeedback

NextSettles ==
    \/ NextRetry
    \/ StartGenerateFeedback
    \/ \E r \in ListResponses : FeedbackFirstResponse(r)
    \/ \E r \in ListResponses : FeedbackRetryResponse(r)
    \/ FeedbackCallRejects
    \/ \E e \in CallErrors : RequestFails(e)
    \/ BackoffElapses

\* Weak fairness: a request that has been sent is answered or fails, and a
\* delay elapses.
SpecSettles == InitSettles /\ [][NextSettles]_vars /\ WF_vars(NextSettles)

\* The invocations of fn retry has made: those that threw and the one in
\* progress or resolved.
Invocations == Len(rerrs) + (IF rpc \in {"call", "resolved"} THEN 1 ELSE 0)

\* retry has settled, or generateFeedback (and its caller) has returned.
HasSettled == rpc \in {"resolved", "rejected"} \/ pc = "done"

\* The bounds on the calls: of retry, and of one call of generateFeedback.
AtMostRetriesPlusOne ==
    /\ Invocations <= rinput.retries + 1
    /\ rpc = "rejected" => Invocations = rinput.retries + 1
    /\ gen.op = "generateFeedback" =>
          /\ Len(gen.prompts) <= 2
          /\ gen.requests <= 2 * (defaultRetries + 1)
          /\ cstate # "none" =>
                gen.requests <= (Len(gen.prompts) - 1) * (defaultRetries + 1)
                                    + (defaultRetries - cretries) + 1
    /\ pc = "done" => settled = "resolved"

\* C25: retry(fn, retries, baseDelay) with retries >= 0 invokes fn at most
\* retries + 1 times and then settles, provided every invocation of fn
\* settles; so one call of generateFeedback sends at most 8 requests to the
\* model (2 prompts, 4 invocations each) and always settles.
C25_BoundedInvocationsAndSettles ==
    /\ []AtMostRetriesPlusOne
    /\ <>HasSettled

\* generateFeedback has returned after 8 requests: the first prompt was
\* answered at the fourth attempt with no question, and the retry prompt
\* failed four times.
C25_Witness ==
    /\ gen.op = "generateFeedback"
    /\ pc = "done"
    /\ gen.requests = 8
    /\ gen.prompts = <<"first", "retry">>

\* s is t[i..j] for some i, j.
IsSubstringOf(s, t) ==
    \E i \in 1..(Len(t) + 1) : \E j \in (i - 1)..Len(t) : s = SubSeq(t, i, j)

\* s begins with "{" and ends with "}".
IsBraced(s) == s # <<>> /\ s[1] = "{" /\ s[Len(s)] = "}"

\* C26 as stated: for every text and in all three variants, extractJSON
\* either reports failure (null) or returns a substring of the text that
\* begins with "{" and ends with "}"; it reports failure whenever the text
\* lacks a "{" or lacks a "}".
C26_NullOrBracedSubstring ==
    xvariant # "none" =>
        /\ xout = Null \/ (IsSubstringOf(xout, text) /\ IsBraced(xout))
        /\ indexOf(text, "{") = -1 \/ indexOf(text, "}") = -1 => xout = Null

\* The research engine's extractJSON has returned the blank between a "}"
\* and the "{" that follows it.
C26_Witness ==
    /\ xvariant = "engine"
    /\ text = <<"}", " ", "{">>
    /\ xout = <<" ">>

(***************************************************************************)
(* The chunking of processContents on its own, on any list of non-empty    *)
(* content items.                                                          *)
(***************************************************************************)
MaxContents == 3

\* The lengths of the content items: short ones, and ones at and just over
\* maxChunkSize.
SampleLengths == {1, 5000, 9000, maxChunkSize - 1, maxChunkSize, maxChunkSize + 1}

\* contents: item k of the list, of one of the lengths
ContentLists ==
    UNION {{[k \in 1..n |-> [q |-> 0, k |-> k, len |-> f[k]]] : f \in [1..n -> SampleLengths]} :
              n \in 0..MaxContents}

\* processContents(query, contents) is called.
InitChunks ==
    /\ IdleExtract
    /\ IdleRetry
    /\ IdleLimiter
    /\ entry = [op |-> "processContents", call |-> "direct", breadth |-> 0, depth |-> 0,
                numQuestions |-> 0, schema |-> "given", query |-> SampleQuery]
    /\ pc = "start"
    /\ cstate = "none"
    /\ cretries = 0
    /\ cbase = 0
    /\ gen = NoGen
    /\ questions = <<>>
    /\ searchQueries = <<>>
    /\ qi = 0
    /\ contents \in ContentLists
    /\ chunks = <<>>
    /\ ci = 0
    /\ chunkResults = <<>>
    /\ searches = <<>>
    /\ settled = "pending"
    /\ result = Null

\* The for loop over contents and the push of the last chunk.
SplitIntoChunks ==
    /\ pc = "start"
    /\ entry.op = "processContents"
    /\ pc' = "chunked"
    /\ chunks' = makeChunks(contents)
    /\ UNCHANGED <<entry, callvars, gen, questions, searchQueries, qi, contents, ci,
                   chunkResults, searches, settled, result>>
    /\ UNCHANGED notProgram

NextChunks == SplitIntoChunks

SpecChunks == InitChunks /\ [][NextChunks]_vars

\* The content items of the chunks, chunk after chunk.
RECURSIVE ItemsOf(_)
ItemsOf(chs) == IF chs = <<>> THEN <<>> ELSE Head(chs).items \o ItemsOf(Tail(chs))

\* C27 as stated: chunking in processContents, for any list of non-empty
\* content items: no chunk is the empty string, and every content item
\* appears whole in exactly one chunk, with the items' order preserved within
\* and across chunks.
C27_NoEmptyChunkAndItemsInOrder ==
    pc = "chunked" =>
        /\ \A i \in 1..Len(chunks) : chunks[i].len > 0
        /\ ItemsOf(chunks) = contents

\* The first content item is longer than maxChunkSize: the empty string was
\* pushed as the first chunk, before the chunk that holds the item.
C27_Witness ==
    /\ pc = "chunked"
    /\ Len(contents) = 1
    /\ contents[1].len = maxChunkSize + 1
    /\ chunks = <<EmptyChunk, [len |-> maxChunkSize + 1, items |-> contents]>>

=============================================================================
